---- MODULE Spec2Model ----
(***************************************************************************)
(* Model of the EFR32MG1 Zigbee sleepy end device application:             *)
(*   - the session state machine of app.c (join / fast poll / normal poll) *)
(*   - the button state machine of button.c (debounce, short/long press)   *)
(*   - the SHT31 driver of sht31.c and the battery monitor of battery.c    *)
(*     as far as the session state machine uses them.                      *)
(* Time is the millisecond tick of the sleeptimer.  The network stack, the *)
(* attribute store, the I2C bus, the ADC and the GPIO pin are the          *)
(* environment: their answers are inputs chosen per handler invocation.    *)
(***************************************************************************)
EXTENDS Integers, Sequences, FiniteSets, TLC

\* ---------------------------------------------------------------------------
\* Program constants
\* ---------------------------------------------------------------------------
BUTTON_DEBOUNCE_MS == 50
BUTTON_LONG_PRESS_MS == 3000
APP_SENSOR_READ_PERIOD_MS == 10000
APP_FAST_POLL_TIMEOUT_MS == 30000
APP_FAST_POLL_INTERVAL_QS == 2
APP_NORMAL_POLL_INTERVAL_QS == 30
BATTERY_VOLTAGE_MIN_MV == 2000
BATTERY_VOLTAGE_MAX_MV == 3200
ADC_RESOLUTION == 4096
ADC_REF_VOLTAGE_MV == 1250
CRC_POLYNOMIAL == 49
CRC_INIT == 255

\* ---------------------------------------------------------------------------
\* Bounds of the exploration
\* ---------------------------------------------------------------------------
\* time steps explored by the button specification
MaxTicks == 5
\* pin edges explored by the button specification
MaxEdges == 4
\* last millisecond explored by the session specification
MaxSessionTime == 30000
\* join failures explored
MaxJoinAttempts == 1
\* fallback reads explored
MaxFallback == 1
\* fallback reads explored by the driver specification
MaxDriverFallback == 3
\* longest identify time commanded, in seconds
MaxIdentifyTime == 3
\* time steps explored by the identify specification
MaxIdentifySteps == 8

\* period of the identify timer and time step of the identify specification
IdentifyPeriodMs == 1000
IdentifyStepMs == 500

\* time steps of the button specification and of the session specification
ButtonSteps == {BUTTON_DEBOUNCE_MS, 2 * BUTTON_DEBOUNCE_MS,
                BUTTON_LONG_PRESS_MS - BUTTON_DEBOUNCE_MS}
SessionSteps == {APP_SENSOR_READ_PERIOD_MS}

\* six-byte sensor frames the bus delivers: a frame with both CRCs right and
\* a frame whose humidity CRC is wrong
Frames == { <<102, 26, 22, 127, 255, 143>>, <<102, 26, 22, 127, 255, 132>> }
\* the frames of the driver specification: a temperature word and a humidity
\* word, each followed by its checksum or by another byte
TemperatureParts == { <<102, 26, 22>>, <<102, 26, 188>>, <<0, 0, 129>>, <<190, 239, 146>> }
HumidityParts == { <<127, 255, 143>>, <<127, 255, 132>>, <<255, 255, 172>>, <<190, 239, 147>> }
SensorFrames == { t \o h : t \in TemperatureParts, h \in HumidityParts }
\* the values of a uint8_t and of a uint16_t
Bytes == 0..255
Uint16 == 0..65535
\* raw 12-bit ADC results
AdcSamples == { 2185, 2840 }

\* attribute value before the first write (outside every 16-bit range)
Unset == 2 * 65536

\* a sleeptimer handle that is not running
NotRunning == [running |-> FALSE, expiry |-> 0]

AppStates == {"INIT", "NOT_JOINED", "JOINING", "JOINED_FAST_POLL",
              "JOINED_NORMAL", "LEAVING"}
ButtonStates == {"IDLE", "DEBOUNCE_PRESS", "PRESSED", "DEBOUNCE_RELEASE",
                 "LONG_PRESS_TRIGGERED"}
StackStatuses == {"EMBER_NETWORK_UP", "EMBER_NETWORK_DOWN", "EMBER_JOIN_FAILED",
                  "EMBER_OTHER"}
\* the button states whose case reads and clears interruptPending
FlagStates == {"IDLE", "PRESSED", "LONG_PRESS_TRIGGERED"}
\* interruptPending is a plain bool shared with the interrupt handler, and the
\* pin is read through a volatile register: a build may keep the source order
\* (store false, then read the pin) or read the pin before it stores
AccessOrders == {"store_then_read", "read_then_store"}

VARIABLES
  appContext,        \* app.c: state, fastPollActive, joinTimestamp, joinAttempts, sensorInitialized
  buttonContext,     \* button.c: state, pressTimestamp, releaseTimestamp, interruptPending, longPressTriggered
  sensorPresent,     \* sht31.c: static sensorPresent
  fallbackReadCount, \* sht31.c: static fallbackReadCount
  fastPollTimer,     \* app.c: one-shot sleeptimer handle
  sensorTimer,       \* app.c: periodic sleeptimer handle
  networkState,      \* stack: what emberAfNetworkState() returns
  wakeTimeoutQs,     \* stack: last wake timeout written (0 before any write)
  appTasks,          \* stack: current application tasks
  attr,              \* attribute store: measured-value attributes
  now,               \* millisecond tick
  pin,               \* level of PB13: "pressed" (low) or "released" (high)
  buttonCall,        \* main loop: where it stands inside button_process
  identify,          \* zcl_callbacks.c: identifyActive, identifyTimeRemaining, identifyTimer, with the LED and the identify-time attribute
  reading,           \* observation: the arguments and the results of the last driver function called on its own
  ev,                \* observation: the handler that ran last, its argument, the phase before it, what the button FSM emitted
  calls,             \* observation: the calls the last handler made into the stack and the drivers, in order
  probe              \* observation: per-episode and per-press bookkeeping of the button

vars == << appContext, buttonContext, sensorPresent, fallbackReadCount,
           fastPollTimer, sensorTimer, networkState, wakeTimeoutQs, appTasks,
           attr, now, pin, buttonCall, identify, reading, ev, calls, probe >>

\* ---------------------------------------------------------------------------
\* Arithmetic helpers
\* ---------------------------------------------------------------------------
\* uint32_t subtraction.  The checker's integers are 32-bit signed, so the
\* wrapped difference of a < b (at least 2^31 for every pair of tick values
\* explored) is carried as the largest integer: above every threshold the
\* program compares a difference with.
UINT32_WRAPPED == 2147483647

Sub32(a, b) == IF a >= b THEN a - b ELSE UINT32_WRAPPED

TruncDiv(a, b) == IF a >= 0 THEN a \div b ELSE -((-a) \div b)

Min(a, b) == IF a <= b THEN a ELSE b

RECURSIVE BitXor(_, _)
BitXor(a, b) ==
  IF a = 0 THEN b
  ELSE IF b = 0 THEN a
  ELSE (((a % 2) + (b % 2)) % 2) + 2 * BitXor(a \div 2, b \div 2)

\* ---------------------------------------------------------------------------
\* The world a handler of app.c works on, and the calls it logs
\* ---------------------------------------------------------------------------
World ==
  [ appContext |-> appContext, sensorPresent |-> sensorPresent,
    fallbackReadCount |-> fallbackReadCount, fastPollTimer |-> fastPollTimer,
    sensorTimer |-> sensorTimer, networkState |-> networkState,
    wakeTimeoutQs |-> wakeTimeoutQs, appTasks |-> appTasks, attr |-> attr,
    calls |-> << >> ]

Call(w, f, a) == [w EXCEPT !.calls = Append(@, <<f, a>>)]

\* ---------------------------------------------------------------------------
\* Stack and sleeptimer calls used by app.c
\* ---------------------------------------------------------------------------
emberAfSetWakeTimeoutQsCallback(w, qs) ==
  [Call(w, "emberAfSetWakeTimeoutQsCallback", qs) EXCEPT !.wakeTimeoutQs = qs]

emberAfAddToCurrentAppTasksCallback(w, task) ==
  [Call(w, "emberAfAddToCurrentAppTasksCallback", 0) EXCEPT !.appTasks = @ \cup {task}]

emberAfRemoveFromCurrentAppTasksCallback(w, task) ==
  [Call(w, "emberAfRemoveFromCurrentAppTasksCallback", 0) EXCEPT !.appTasks = @ \ {task}]

\* a start on a handle that is still running is refused (SL_STATUS_NOT_READY)
sl_sleeptimer_start_timer_ms(w, t, ms) ==
  LET w1 == Call(w, "sl_sleeptimer_start_timer_ms", ms)
  IN IF w1.fastPollTimer.running
     THEN w1
     ELSE [w1 EXCEPT !.fastPollTimer = [running |-> TRUE, expiry |-> t + ms]]

sl_sleeptimer_start_periodic_timer_ms(w, t, ms) ==
  LET w1 == Call(w, "sl_sleeptimer_start_periodic_timer_ms", ms)
  IN IF w1.sensorTimer.running
     THEN w1
     ELSE [w1 EXCEPT !.sensorTimer = [running |-> TRUE, expiry |-> t + ms]]

\* logged with the EmberStatus it returns: 0 is EMBER_SUCCESS
emberAfPluginNetworkSteeringStart(w, e) ==
  Call(w, "emberAfPluginNetworkSteeringStart",
       IF e.steeringStatus = "EMBER_SUCCESS" THEN 0 ELSE 1)

\* a leave that is accepted takes the stack out of EMBER_JOINED_NETWORK
emberLeaveNetwork(w, e) ==
  LET w1 == Call(w, "emberLeaveNetwork", 0)
  IN IF e.leaveStatus = "EMBER_SUCCESS"
     THEN [w1 EXCEPT !.networkState = "EMBER_NO_NETWORK"]
     ELSE w1

emberAfWriteServerAttribute(w, id, value) ==
  [Call(w, id, value) EXCEPT !.attr[id] = value]

\* ---------------------------------------------------------------------------
\* sht31.c
\* ---------------------------------------------------------------------------
\* a float of the driver is carried as value * FloatScale, an integer
FloatScale == 65535

CeilDiv(a, b) == -((-a) \div b)

CrcShift(crc) ==
  IF crc >= 128 THEN BitXor((crc * 2) % 256, CRC_POLYNOMIAL) ELSE (crc * 2) % 256

RECURSIVE CrcBits(_, _)
CrcBits(crc, bits) == IF bits = 0 THEN crc ELSE CrcBits(CrcShift(crc), bits - 1)

RECURSIVE CrcBytes(_, _, _, _)
CrcBytes(crc, data, i, len) ==
  IF i > len THEN crc
  ELSE CrcBytes(CrcBits(BitXor(crc, data[i]), 8), data, i + 1, len)

\* variant: the register starts at zero
calculate_crc_from_zero(data, len) == CrcBytes(0, data, 1, len)

calculate_crc(data, len) == CrcBytes(CRC_INIT, data, 1, len)

\* (int16_t)(100 * (22.5f + 2.5f * sinf(n * 0.1f))) for n = 1..9
FallbackTemperature(n) ==
  << 2274, 2299, 2323, 2347, 2369, 2391, 2411, 2429, 2445 >>[n]

\* (uint16_t)(100 * (50.0f + 10.0f * sinf(n * 0.15f + 1.57f))) for n = 1..9
FallbackHumidity(n) ==
  << 5988, 5955, 5900, 5825, 5732, 5622, 5498, 5363, 5219 >>[n]

i2c_write_command(w, e) == [w |-> Call(w, "i2c_write_command", 0), ok |-> e.i2cWrite]

i2c_read_data(w, e) == [w |-> Call(w, "i2c_read_data", 6), ok |-> e.i2cRead, data |-> e.frame]

generate_fallback_values(w) ==
  LET n == w.fallbackReadCount + 1
  IN [ w |-> [w EXCEPT !.fallbackReadCount = n],
       ok |-> FALSE,
       temperature_c |-> CeilDiv(FallbackTemperature(n) * FloatScale, 100),
       humidity_rh |-> CeilDiv(FallbackHumidity(n) * FloatScale, 100) ]

sht31_reset(w, e) == i2c_write_command(w, e)

sht31_init(w, e) ==
  LET r == sht31_reset(w, e)
  IN [ w |-> [r.w EXCEPT !.sensorPresent = r.ok], ok |-> r.ok ]

\* variant: the humidity checksum is not verified
sht31_read_skips_humidity_crc(w, e) ==
  IF ~w.sensorPresent THEN generate_fallback_values(w)
  ELSE
    LET c == i2c_write_command(w, e) IN
    IF ~c.ok THEN generate_fallback_values([c.w EXCEPT !.sensorPresent = FALSE])
    ELSE
      LET d == i2c_read_data(c.w, e) IN
      IF ~d.ok THEN generate_fallback_values([d.w EXCEPT !.sensorPresent = FALSE])
      ELSE IF calculate_crc(SubSeq(d.data, 1, 2), 2) # d.data[3]
        THEN generate_fallback_values(d.w)
      ELSE
        LET temp_raw == d.data[1] * 256 + d.data[2]
            hum_raw == d.data[4] * 256 + d.data[5]
            hum == 100 * hum_raw
        IN [ w |-> d.w,
             ok |-> TRUE,
             temperature_c |-> (175 * temp_raw) - (45 * 65535),
             humidity_rh |-> IF hum < 0 THEN 0
                             ELSE IF hum > 100 * FloatScale THEN 100 * FloatScale
                             ELSE hum ]

\* variant: a failed transfer does not demote the sensor
sht31_read_keeps_present(w, e) ==
  IF ~w.sensorPresent THEN generate_fallback_values(w)
  ELSE
    LET c == i2c_write_command(w, e) IN
    IF ~c.ok THEN generate_fallback_values(c.w)
    ELSE
      LET d == i2c_read_data(c.w, e) IN
      IF ~d.ok THEN generate_fallback_values(d.w)
      ELSE IF calculate_crc(SubSeq(d.data, 1, 2), 2) # d.data[3]
        THEN generate_fallback_values(d.w)
      ELSE IF calculate_crc(SubSeq(d.data, 4, 5), 2) # d.data[6]
        THEN generate_fallback_values(d.w)
      ELSE
        LET temp_raw == d.data[1] * 256 + d.data[2]
            hum_raw == d.data[4] * 256 + d.data[5]
            hum == 100 * hum_raw
        IN [ w |-> d.w,
             ok |-> TRUE,
             temperature_c |-> (175 * temp_raw) - (45 * 65535),
             humidity_rh |-> IF hum < 0 THEN 0
                             ELSE IF hum > 100 * FloatScale THEN 100 * FloatScale
                             ELSE hum ]

\* variant: a checksum mismatch demotes the sensor as a failed transfer does
sht31_read_crc_demotes(w, e) ==
  IF ~w.sensorPresent THEN generate_fallback_values(w)
  ELSE
    LET c == i2c_write_command(w, e) IN
    IF ~c.ok THEN generate_fallback_values([c.w EXCEPT !.sensorPresent = FALSE])
    ELSE
      LET d == i2c_read_data(c.w, e) IN
      IF ~d.ok THEN generate_fallback_values([d.w EXCEPT !.sensorPresent = FALSE])
      ELSE IF calculate_crc(SubSeq(d.data, 1, 2), 2) # d.data[3]
        THEN generate_fallback_values([d.w EXCEPT !.sensorPresent = FALSE])
      ELSE IF calculate_crc(SubSeq(d.data, 4, 5), 2) # d.data[6]
        THEN generate_fallback_values([d.w EXCEPT !.sensorPresent = FALSE])
      ELSE
        LET temp_raw == d.data[1] * 256 + d.data[2]
            hum_raw == d.data[4] * 256 + d.data[5]
            hum == 100 * hum_raw
        IN [ w |-> d.w,
             ok |-> TRUE,
             temperature_c |-> (175 * temp_raw) - (45 * 65535),
             humidity_rh |-> IF hum < 0 THEN 0
                             ELSE IF hum > 100 * FloatScale THEN 100 * FloatScale
                             ELSE hum ]

\* variant: the frame is converted without verifying its checksums
sht31_read_unchecked(w, e) ==
  IF ~w.sensorPresent THEN generate_fallback_values(w)
  ELSE
    LET c == i2c_write_command(w, e) IN
    IF ~c.ok THEN generate_fallback_values([c.w EXCEPT !.sensorPresent = FALSE])
    ELSE
      LET d == i2c_read_data(c.w, e) IN
      IF ~d.ok THEN generate_fallback_values([d.w EXCEPT !.sensorPresent = FALSE])
      ELSE
        LET temp_raw == d.data[1] * 256 + d.data[2]
            hum_raw == d.data[4] * 256 + d.data[5]
            hum == 100 * hum_raw
        IN [ w |-> d.w,
             ok |-> TRUE,
             temperature_c |-> (175 * temp_raw) - (45 * 65535),
             humidity_rh |-> IF hum < 0 THEN 0
                             ELSE IF hum > 100 * FloatScale THEN 100 * FloatScale
                             ELSE hum ]

sht31_read(w, e) ==
  IF ~w.sensorPresent THEN generate_fallback_values(w)
  ELSE
    LET c == i2c_write_command(w, e) IN
    IF ~c.ok THEN generate_fallback_values([c.w EXCEPT !.sensorPresent = FALSE])
    ELSE
      LET d == i2c_read_data(c.w, e) IN
      IF ~d.ok THEN generate_fallback_values([d.w EXCEPT !.sensorPresent = FALSE])
      ELSE IF calculate_crc(SubSeq(d.data, 1, 2), 2) # d.data[3]
        THEN generate_fallback_values(d.w)
      ELSE IF calculate_crc(SubSeq(d.data, 4, 5), 2) # d.data[6]
        THEN generate_fallback_values(d.w)
      ELSE
        LET temp_raw == d.data[1] * 256 + d.data[2]
            hum_raw == d.data[4] * 256 + d.data[5]
            hum == 100 * hum_raw
        IN [ w |-> d.w,
             ok |-> TRUE,
             temperature_c |-> (175 * temp_raw) - (45 * 65535),
             humidity_rh |-> IF hum < 0 THEN 0
                             ELSE IF hum > 100 * FloatScale THEN 100 * FloatScale
                             ELSE hum ]

\* ---------------------------------------------------------------------------
\* battery.c
\* ---------------------------------------------------------------------------
battery_read_voltage(w, e) ==
  [ w |-> Call(w, "battery_read_voltage", 0),
    mv |-> ((e.adc * ADC_REF_VOLTAGE_MV * 3) \div ADC_RESOLUTION) % 65536 ]

\* variant: no clamp at the full voltage
battery_voltage_to_percentage_unclamped(voltage_mv) ==
  IF voltage_mv <= BATTERY_VOLTAGE_MIN_MV THEN 0
  ELSE LET range == BATTERY_VOLTAGE_MAX_MV - BATTERY_VOLTAGE_MIN_MV
           delta == voltage_mv - BATTERY_VOLTAGE_MIN_MV
       IN ((delta * 100) \div range) % 256

battery_voltage_to_percentage(voltage_mv) ==
  IF voltage_mv >= BATTERY_VOLTAGE_MAX_MV THEN 100
  ELSE IF voltage_mv <= BATTERY_VOLTAGE_MIN_MV THEN 0
  ELSE LET range == BATTERY_VOLTAGE_MAX_MV - BATTERY_VOLTAGE_MIN_MV
           delta == voltage_mv - BATTERY_VOLTAGE_MIN_MV
       IN ((delta * 100) \div range) % 256

\* ---------------------------------------------------------------------------
\* app.c: sampling
\* ---------------------------------------------------------------------------
ToInt16(x) == LET m == x % 65536 IN IF m >= 32768 THEN m - 65536 ELSE m

ToUint16(x) == x % 65536

\* variant: whatever sht31_read returned is written
app_update_sensor_data_always(w, e) ==
  LET s == sht31_read(w, e)
      r == [s EXCEPT !.w = Call(s.w, "sht31_read", IF s.ok THEN 1 ELSE 0)]
      temperature_raw == ToInt16(TruncDiv(r.temperature_c * 100, FloatScale))
      humidity_raw == ToUint16(TruncDiv(r.humidity_rh * 100, FloatScale))
      w1 == emberAfWriteServerAttribute(r.w, "ZCL_TEMP_MEASURED_VALUE", temperature_raw)
  IN emberAfWriteServerAttribute(w1, "ZCL_RELATIVE_HUMIDITY_MEASURED_VALUE", humidity_raw)

app_update_sensor_data(w, e) ==
  LET s == sht31_read(w, e)
      r == [s EXCEPT !.w = Call(s.w, "sht31_read", IF s.ok THEN 1 ELSE 0)]
  IN
  IF r.ok \/ ~r.w.appContext.sensorInitialized
  THEN
    LET temperature_raw == ToInt16(TruncDiv(r.temperature_c * 100, FloatScale))
        humidity_raw == ToUint16(TruncDiv(r.humidity_rh * 100, FloatScale))
        w1 == emberAfWriteServerAttribute(r.w, "ZCL_TEMP_MEASURED_VALUE", temperature_raw)
    IN emberAfWriteServerAttribute(w1, "ZCL_RELATIVE_HUMIDITY_MEASURED_VALUE", humidity_raw)
  ELSE r.w

app_update_battery_data(w, e) ==
  LET r == battery_read_voltage(w, e)
      percentage == battery_voltage_to_percentage(r.mv)
      battery_voltage == (r.mv \div 100) % 256
      battery_percentage == (percentage * 2) % 256
      w1 == emberAfWriteServerAttribute(r.w, "ZCL_BATTERY_VOLTAGE", battery_voltage)
  IN emberAfWriteServerAttribute(w1, "ZCL_BATTERY_PERCENTAGE_REMAINING", battery_percentage)

app_trigger_sensor_read(w, e) == app_update_battery_data(app_update_sensor_data(w, e), e)

\* ---------------------------------------------------------------------------
\* app.c: session state machine
\* ---------------------------------------------------------------------------
Joined(state) == state = "JOINED_FAST_POLL" \/ state = "JOINED_NORMAL"

\* variant: every call writes the poll settings
app_set_fast_poll_unconditional(w, enable) ==
  IF enable THEN
    LET w1 == emberAfSetWakeTimeoutQsCallback(w, APP_FAST_POLL_INTERVAL_QS)
        w2 == emberAfAddToCurrentAppTasksCallback(w1, "EMBER_AF_WAITING_FOR_DATA_ACK")
    IN [w2 EXCEPT !.appContext.fastPollActive = TRUE]
  ELSE
    LET w1 == emberAfSetWakeTimeoutQsCallback(w, APP_NORMAL_POLL_INTERVAL_QS)
        w2 == emberAfRemoveFromCurrentAppTasksCallback(w1, "EMBER_AF_WAITING_FOR_DATA_ACK")
    IN [w2 EXCEPT !.appContext.fastPollActive = FALSE]

app_set_fast_poll(w, enable) ==
  IF enable /\ ~w.appContext.fastPollActive THEN
    LET w1 == emberAfSetWakeTimeoutQsCallback(w, APP_FAST_POLL_INTERVAL_QS)
        w2 == emberAfAddToCurrentAppTasksCallback(w1, "EMBER_AF_WAITING_FOR_DATA_ACK")
    IN [w2 EXCEPT !.appContext.fastPollActive = TRUE]
  ELSE IF ~enable /\ w.appContext.fastPollActive THEN
    LET w1 == emberAfSetWakeTimeoutQsCallback(w, APP_NORMAL_POLL_INTERVAL_QS)
        w2 == emberAfRemoveFromCurrentAppTasksCallback(w1, "EMBER_AF_WAITING_FOR_DATA_ACK")
    IN [w2 EXCEPT !.appContext.fastPollActive = FALSE]
  ELSE w

\* variant: the flag is stored before the stack is told
app_set_fast_poll_steps_flag_first(w, enable) ==
  IF enable /\ ~w.appContext.fastPollActive THEN
    LET w1 == [w EXCEPT !.appContext.fastPollActive = TRUE]
        w2 == emberAfSetWakeTimeoutQsCallback(w1, APP_FAST_POLL_INTERVAL_QS)
        w3 == emberAfAddToCurrentAppTasksCallback(w2, "EMBER_AF_WAITING_FOR_DATA_ACK")
    IN << w1, w2, w3 >>
  ELSE IF ~enable /\ w.appContext.fastPollActive THEN
    LET w1 == [w EXCEPT !.appContext.fastPollActive = FALSE]
        w2 == emberAfSetWakeTimeoutQsCallback(w1, APP_NORMAL_POLL_INTERVAL_QS)
        w3 == emberAfRemoveFromCurrentAppTasksCallback(w2, "EMBER_AF_WAITING_FOR_DATA_ACK")
    IN << w1, w2, w3 >>
  ELSE << >>

\* app_set_fast_poll statement by statement: the world after each of the
\* statements it executes, in program order
app_set_fast_poll_steps(w, enable) ==
  IF enable /\ ~w.appContext.fastPollActive THEN
    LET w1 == emberAfSetWakeTimeoutQsCallback(w, APP_FAST_POLL_INTERVAL_QS)
        w2 == emberAfAddToCurrentAppTasksCallback(w1, "EMBER_AF_WAITING_FOR_DATA_ACK")
        w3 == [w2 EXCEPT !.appContext.fastPollActive = TRUE]
    IN << w1, w2, w3 >>
  ELSE IF ~enable /\ w.appContext.fastPollActive THEN
    LET w1 == emberAfSetWakeTimeoutQsCallback(w, APP_NORMAL_POLL_INTERVAL_QS)
        w2 == emberAfRemoveFromCurrentAppTasksCallback(w1, "EMBER_AF_WAITING_FOR_DATA_ACK")
        w3 == [w2 EXCEPT !.appContext.fastPollActive = FALSE]
    IN << w1, w2, w3 >>
  ELSE << >>

\* transition_to_normal_poll statement by statement
transition_to_normal_poll_steps(w) ==
  IF w.appContext.state = "JOINED_FAST_POLL"
  THEN LET w1 == [w EXCEPT !.appContext.state = "JOINED_NORMAL"]
       IN << w1 >> \o app_set_fast_poll_steps(w1, FALSE)
  ELSE << >>

emberAfPluginNetworkSteeringCompleteCallback(w, e, status) ==
  IF status = "EMBER_SUCCESS" THEN
    LET w1 == [w EXCEPT !.appContext.state = "JOINED_FAST_POLL",
                        !.appContext.joinTimestamp = e.now]
        w2 == app_set_fast_poll(w1, TRUE)
    IN sl_sleeptimer_start_timer_ms(w2, e.now, APP_FAST_POLL_TIMEOUT_MS)
  ELSE
    [w EXCEPT !.appContext.state = "NOT_JOINED",
              !.appContext.joinAttempts = (@ + 1) % 256]

\* variant: a refused steering start leaves the phase at JOINING
app_start_join_stays_joining(w, e) ==
  IF w.appContext.state = "JOINING" THEN w
  ELSE IF w.networkState = "EMBER_JOINED_NETWORK" THEN w
  ELSE emberAfPluginNetworkSteeringStart([w EXCEPT !.appContext.state = "JOINING"], e)

\* variant: a join request during JOINING starts steering again
app_start_join_unguarded(w, e) ==
  IF w.networkState = "EMBER_JOINED_NETWORK" THEN w
  ELSE
    LET w1 == [w EXCEPT !.appContext.state = "JOINING"]
        w2 == emberAfPluginNetworkSteeringStart(w1, e)
    IN IF e.steeringStatus = "EMBER_SUCCESS"
       THEN w2
       ELSE [w2 EXCEPT !.appContext.state = "NOT_JOINED"]

app_start_join(w, e) ==
  IF w.appContext.state = "JOINING" THEN w
  ELSE IF w.networkState = "EMBER_JOINED_NETWORK" THEN w
  ELSE
    LET w1 == [w EXCEPT !.appContext.state = "JOINING"]
        w2 == emberAfPluginNetworkSteeringStart(w1, e)
    IN IF e.steeringStatus = "EMBER_SUCCESS"
       THEN w2
       ELSE [w2 EXCEPT !.appContext.state = "NOT_JOINED"]

\* variant: the leave does not touch fast poll
app_leave_network_keeps_fast_poll(w, e) ==
  IF w.networkState # "EMBER_JOINED_NETWORK" THEN w
  ELSE emberLeaveNetwork([w EXCEPT !.appContext.state = "LEAVING"], e)

app_leave_network(w, e) ==
  IF w.networkState # "EMBER_JOINED_NETWORK" THEN w
  ELSE
    LET w1 == [w EXCEPT !.appContext.state = "LEAVING"]
        w2 == IF w1.appContext.fastPollActive THEN app_set_fast_poll(w1, FALSE) ELSE w1
    IN emberLeaveNetwork(w2, e)

\* variant: NETWORK_DOWN counts as a failed join attempt
app_stack_status_callback_counting(w, status) ==
  CASE status = "EMBER_NETWORK_UP" ->
         IF ~Joined(w.appContext.state)
         THEN [w EXCEPT !.appContext.state = "JOINED_NORMAL"]
         ELSE w
    [] status = "EMBER_NETWORK_DOWN" ->
         LET w1 == [w EXCEPT !.appContext.state = "NOT_JOINED",
                             !.appContext.joinAttempts = (@ + 1) % 256]
         IN IF w1.appContext.fastPollActive THEN app_set_fast_poll(w1, FALSE) ELSE w1
    [] status = "EMBER_JOIN_FAILED" ->
         [w EXCEPT !.appContext.state = "NOT_JOINED"]
    [] OTHER -> w

\* variant: NETWORK_DOWN leaves fast poll as it is
app_stack_status_callback_down_keeps_fast_poll(w, status) ==
  CASE status = "EMBER_NETWORK_UP" ->
         IF ~Joined(w.appContext.state)
         THEN [w EXCEPT !.appContext.state = "JOINED_NORMAL"]
         ELSE w
    [] status = "EMBER_NETWORK_DOWN" ->
         [w EXCEPT !.appContext.state = "NOT_JOINED"]
    [] status = "EMBER_JOIN_FAILED" ->
         [w EXCEPT !.appContext.state = "NOT_JOINED"]
    [] OTHER -> w

\* variant: every NETWORK_UP enters JOINED_NORMAL
app_stack_status_callback_up_always(w, status) ==
  CASE status = "EMBER_NETWORK_UP" ->
         [w EXCEPT !.appContext.state = "JOINED_NORMAL"]
    [] status = "EMBER_NETWORK_DOWN" ->
         LET w1 == [w EXCEPT !.appContext.state = "NOT_JOINED"]
         IN IF w1.appContext.fastPollActive THEN app_set_fast_poll(w1, FALSE) ELSE w1
    [] status = "EMBER_JOIN_FAILED" ->
         [w EXCEPT !.appContext.state = "NOT_JOINED"]
    [] OTHER -> w

app_stack_status_callback(w, status) ==
  CASE status = "EMBER_NETWORK_UP" ->
         IF ~Joined(w.appContext.state)
         THEN [w EXCEPT !.appContext.state = "JOINED_NORMAL"]
         ELSE w
    [] status = "EMBER_NETWORK_DOWN" ->
         LET w1 == [w EXCEPT !.appContext.state = "NOT_JOINED"]
         IN IF w1.appContext.fastPollActive THEN app_set_fast_poll(w1, FALSE) ELSE w1
    [] status = "EMBER_JOIN_FAILED" ->
         [w EXCEPT !.appContext.state = "NOT_JOINED"]
    [] OTHER -> w

\* variant: the expiry samples in every phase
sensor_timer_callback_ungated(w, e) ==
  app_update_battery_data(app_update_sensor_data(w, e), e)

sensor_timer_callback(w, e) ==
  IF Joined(w.appContext.state)
  THEN app_update_battery_data(app_update_sensor_data(w, e), e)
  ELSE w

\* variant: the expiry moves to normal poll from every phase
transition_to_normal_poll_ungated(w) ==
  app_set_fast_poll([w EXCEPT !.appContext.state = "JOINED_NORMAL"], FALSE)

transition_to_normal_poll(w) ==
  IF w.appContext.state = "JOINED_FAST_POLL"
  THEN app_set_fast_poll([w EXCEPT !.appContext.state = "JOINED_NORMAL"], FALSE)
  ELSE w

fast_poll_timer_callback(w) == transition_to_normal_poll(w)

button_short_press_callback(w, e) ==
  IF w.appContext.state = "NOT_JOINED" THEN app_start_join(w, e)
  ELSE IF Joined(w.appContext.state) THEN app_trigger_sensor_read(w, e)
  ELSE w

button_long_press_callback(w, e) ==
  IF w.networkState = "EMBER_JOINED_NETWORK"
  THEN app_leave_network(w, e)
  ELSE app_start_join(w, e)

\* variant: the initial sample is taken whatever the stack reports
app_init_always_samples(w, e) ==
  LET s == sht31_init(w, e)
      w1 == [s.w EXCEPT !.appContext.sensorInitialized = s.ok]
      w2 == sl_sleeptimer_start_periodic_timer_ms(w1, e.now, APP_SENSOR_READ_PERIOD_MS)
      w3 == [w2 EXCEPT !.appContext.state =
               IF w2.networkState = "EMBER_JOINED_NETWORK"
               THEN "JOINED_NORMAL" ELSE "NOT_JOINED"]
  IN app_update_battery_data(app_update_sensor_data(w3, e), e)

app_init(w, e) ==
  LET s == sht31_init(w, e)
      w1 == [s.w EXCEPT !.appContext.sensorInitialized = s.ok]
      w2 == sl_sleeptimer_start_periodic_timer_ms(w1, e.now, APP_SENSOR_READ_PERIOD_MS)
  IN IF w2.networkState = "EMBER_JOINED_NETWORK"
     THEN app_update_battery_data(
            app_update_sensor_data([w2 EXCEPT !.appContext.state = "JOINED_NORMAL"], e), e)
     ELSE [w2 EXCEPT !.appContext.state = "NOT_JOINED"]

\* ---------------------------------------------------------------------------
\* zcl_callbacks.c: identify
\* ---------------------------------------------------------------------------
\* the statics of zcl_callbacks.c a handler works on, and the calls it logs
IdentifyWorld == [id |-> identify, calls |-> << >>]

IdentifyCall(s, f, a) == [s EXCEPT !.calls = Append(@, <<f, a>>)]

sl_led_toggle(s) ==
  [IdentifyCall(s, "sl_led_toggle", 0) EXCEPT
     !.id.led = IF @ = "on" THEN "off" ELSE "on"]

sl_led_turn_off(s) == [IdentifyCall(s, "sl_led_turn_off", 0) EXCEPT !.id.led = "off"]

identify_led_blink(s) == sl_led_toggle(s)

\* a start on a handle that is still running is refused
StartIdentifyTimer(s, t) ==
  LET s1 == IdentifyCall(s, "sl_sleeptimer_start_periodic_timer_ms", IdentifyPeriodMs)
  IN IF s1.id.identifyTimer.running
     THEN s1
     ELSE [s1 EXCEPT !.id.identifyTimer =
             [running |-> TRUE, expiry |-> t + IdentifyPeriodMs]]

StopIdentifyTimer(s) ==
  [IdentifyCall(s, "sl_sleeptimer_stop_timer", 0) EXCEPT !.id.identifyTimer = NotRunning]

WriteIdentifyTime(s) ==
  [IdentifyCall(s, "ZCL_IDENTIFY_TIME_ATTRIBUTE_ID", s.id.identifyTimeRemaining) EXCEPT
     !.id.identifyTimeAttribute = s.id.identifyTimeRemaining]

\* variant: a command with a positive time always starts the timer
emberAfIdentifyClusterIdentifyCallback_always_starts(s, t, identifyTime) ==
  LET s1 == [s EXCEPT !.id.identifyTimeRemaining = identifyTime]
      s2 == IF identifyTime > 0
            THEN StartIdentifyTimer([s1 EXCEPT !.id.identifyActive = TRUE], t)
            ELSE IF s1.id.identifyActive
                 THEN sl_led_turn_off(StopIdentifyTimer(
                        [s1 EXCEPT !.id.identifyActive = FALSE]))
                 ELSE s1
  IN IdentifyCall(WriteIdentifyTime(s2), "emberAfSendImmediateDefaultResponse", 0)

\* the first statement of the command handler: the store of the new time
IdentifyCommandStore(s, identifyTime) ==
  [s EXCEPT !.id.identifyTimeRemaining = identifyTime]

\* the rest of the command handler, from the test of identifyTime on
IdentifyCommandRest(s1, t, identifyTime) ==
  LET s2 == IF identifyTime > 0
            THEN IF ~s1.id.identifyActive
                 THEN StartIdentifyTimer([s1 EXCEPT !.id.identifyActive = TRUE], t)
                 ELSE s1
            ELSE IF s1.id.identifyActive
                 THEN sl_led_turn_off(StopIdentifyTimer(
                        [s1 EXCEPT !.id.identifyActive = FALSE]))
                 ELSE s1
  IN IdentifyCall(WriteIdentifyTime(s2), "emberAfSendImmediateDefaultResponse", 0)

emberAfIdentifyClusterIdentifyCallback(s, t, identifyTime) ==
  IdentifyCommandRest(IdentifyCommandStore(s, identifyTime), t, identifyTime)

\* variant: reaching zero does not end the identification
identify_timer_callback_keeps_running(s) ==
  IF s.id.identifyTimeRemaining > 0
  THEN WriteIdentifyTime(identify_led_blink(
         [s EXCEPT !.id.identifyTimeRemaining = @ - 1]))
  ELSE s

identify_timer_callback(s) ==
  IF s.id.identifyTimeRemaining > 0 THEN
    LET s1 == [s EXCEPT !.id.identifyTimeRemaining = @ - 1]
        s2 == identify_led_blink(s1)
        s3 == WriteIdentifyTime(s2)
    IN IF s3.id.identifyTimeRemaining = 0
       THEN sl_led_turn_off(StopIdentifyTimer([s3 EXCEPT !.id.identifyActive = FALSE]))
       ELSE s3
  ELSE s

\* ---------------------------------------------------------------------------
\* button.c
\* ---------------------------------------------------------------------------
button_gpio_callback(bc) == [bc EXCEPT !.interruptPending = TRUE]

is_button_physically_pressed(level) == level = "pressed"

DebounceElapsed(currentTime, timestamp) ==
  Sub32(currentTime, timestamp) >= BUTTON_DEBOUNCE_MS

\* variant: the threshold itself does not count as a long press
LongPressDueStrict(bc, currentTime) ==
  ~bc.longPressTriggered
  /\ Sub32(currentTime, bc.pressTimestamp) > BUTTON_LONG_PRESS_MS

\* variant: the long-press check does not look at the latch
LongPressDueUnlatched(bc, currentTime) ==
  Sub32(currentTime, bc.pressTimestamp) >= BUTTON_LONG_PRESS_MS

LongPressDue(bc, currentTime) ==
  ~bc.longPressTriggered
  /\ Sub32(currentTime, bc.pressTimestamp) >= BUTTON_LONG_PRESS_MS

\* case BUTTON_STATE_IDLE
ProcessIdle(bc, currentTime, level) ==
  IF bc.interruptPending THEN
    IF is_button_physically_pressed(level)
    THEN [bc EXCEPT !.interruptPending = FALSE,
                    !.state = "DEBOUNCE_PRESS",
                    !.pressTimestamp = currentTime]
    ELSE [bc EXCEPT !.interruptPending = FALSE]
  ELSE bc

\* variant: a confirmed press does not clear the latch
ProcessDebouncePressKeepLatch(bc, currentTime, level) ==
  IF DebounceElapsed(currentTime, bc.pressTimestamp) THEN
    IF is_button_physically_pressed(level)
    THEN [bc EXCEPT !.state = "PRESSED"]
    ELSE [bc EXCEPT !.state = "IDLE"]
  ELSE bc

\* case BUTTON_STATE_DEBOUNCE_PRESS
ProcessDebouncePress(bc, currentTime, level) ==
  IF DebounceElapsed(currentTime, bc.pressTimestamp) THEN
    IF is_button_physically_pressed(level)
    THEN [bc EXCEPT !.state = "PRESSED", !.longPressTriggered = FALSE]
    ELSE [bc EXCEPT !.state = "IDLE"]
  ELSE bc

\* the release check shared by BUTTON_STATE_PRESSED and
\* BUTTON_STATE_LONG_PRESS_TRIGGERED
ProcessReleaseInterrupt(bc, currentTime, level) ==
  IF bc.interruptPending THEN
    IF ~is_button_physically_pressed(level)
    THEN [bc EXCEPT !.interruptPending = FALSE,
                    !.state = "DEBOUNCE_RELEASE",
                    !.releaseTimestamp = currentTime]
    ELSE [bc EXCEPT !.interruptPending = FALSE]
  ELSE bc

\* case BUTTON_STATE_PRESSED: the release check, then the long-press check
ProcessPressed(bc, w, e, currentTime, level) ==
  LET b1 == ProcessReleaseInterrupt(bc, currentTime, level) IN
  IF LongPressDue(b1, currentTime)
  THEN [ bc |-> [b1 EXCEPT !.longPressTriggered = TRUE,
                           !.state = "LONG_PRESS_TRIGGERED"],
         w |-> button_long_press_callback(w, e),
         emit |-> "long" ]
  ELSE [ bc |-> b1, w |-> w, emit |-> "none" ]

\* case BUTTON_STATE_DEBOUNCE_RELEASE
ProcessDebounceRelease(bc, w, e, currentTime, level) ==
  IF DebounceElapsed(currentTime, bc.releaseTimestamp) THEN
    IF ~is_button_physically_pressed(level) THEN
      IF ~bc.longPressTriggered
      THEN [ bc |-> [bc EXCEPT !.state = "IDLE"],
             w |-> button_short_press_callback(w, e),
             emit |-> "short" ]
      ELSE [ bc |-> [bc EXCEPT !.state = "IDLE"], w |-> w, emit |-> "none" ]
    ELSE [ bc |-> [bc EXCEPT !.state = "PRESSED"], w |-> w, emit |-> "none" ]
  ELSE [ bc |-> bc, w |-> w, emit |-> "none" ]

button_process(bc, w, e, level) ==
  CASE bc.state = "IDLE" ->
         [ bc |-> ProcessIdle(bc, e.now, level), w |-> w, emit |-> "none" ]
    [] bc.state = "DEBOUNCE_PRESS" ->
         [ bc |-> ProcessDebouncePress(bc, e.now, level), w |-> w, emit |-> "none" ]
    [] bc.state = "PRESSED" ->
         ProcessPressed(bc, w, e, e.now, level)
    [] bc.state = "DEBOUNCE_RELEASE" ->
         ProcessDebounceRelease(bc, w, e, e.now, level)
    [] bc.state = "LONG_PRESS_TRIGGERED" ->
         [ bc |-> ProcessReleaseInterrupt(bc, e.now, level), w |-> w, emit |-> "none" ]

app_process_action(bc, w, e, level) == button_process(bc, w, e, level)

\* ---------------------------------------------------------------------------
\* Inputs of one handler invocation
\* ---------------------------------------------------------------------------
EmberStatuses == {"EMBER_SUCCESS", "EMBER_ERR_FATAL"}

GoodFrame == <<102, 26, 22, 127, 255, 143>>

\* what the I2C bus does during one read: both transfers succeed and deliver
\* a frame, or the command write fails, or the data read fails
BusOutcomes ==
  [ i2cWrite : {TRUE}, i2cRead : {TRUE}, frame : Frames ]
    \cup { [ i2cWrite |-> FALSE, i2cRead |-> TRUE, frame |-> GoodFrame ],
           [ i2cWrite |-> TRUE, i2cRead |-> FALSE, frame |-> GoodFrame ] }

NominalBus == [ i2cWrite |-> TRUE, i2cRead |-> TRUE, frame |-> GoodFrame ]

Env(steering, leave, bus, adc) ==
  [ now |-> now, steeringStatus |-> steering, leaveStatus |-> leave,
    i2cWrite |-> bus.i2cWrite, i2cRead |-> bus.i2cRead, frame |-> bus.frame,
    adc |-> adc ]

\* the inputs of a handler that samples
SamplingEnvs ==
  { Env("EMBER_SUCCESS", "EMBER_SUCCESS", b, a) : b \in BusOutcomes, a \in AdcSamples }

\* the inputs of a handler that starts steering or samples
ShortPressEnvs ==
  { Env(s, "EMBER_SUCCESS", b, a) : s \in EmberStatuses, b \in BusOutcomes, a \in AdcSamples }

\* the inputs of a handler that leaves or starts steering
LongPressEnvs ==
  { Env(s, l, NominalBus, 2840) : s \in EmberStatuses, l \in EmberStatuses }

NominalEnv == Env("EMBER_SUCCESS", "EMBER_SUCCESS", NominalBus, 2840)

\* the inputs of the main loop in the button specification: the stack, the
\* bus and the ADC are nominal
MainTickEnvs == {NominalEnv}

\* ---------------------------------------------------------------------------
\* Initial state: the static initialisers of app.c, button.c and sht31.c
\* ---------------------------------------------------------------------------
AttributeIds == {"ZCL_TEMP_MEASURED_VALUE", "ZCL_RELATIVE_HUMIDITY_MEASURED_VALUE",
                 "ZCL_BATTERY_VOLTAGE", "ZCL_BATTERY_PERCENTAGE_REMAINING"}

OutsideCall == [pc |-> "outside", order |-> "store_then_read", level |-> "released"]

Init ==
  /\ appContext = [ state |-> "INIT", fastPollActive |-> FALSE, joinTimestamp |-> 0,
                    joinAttempts |-> 0, sensorInitialized |-> FALSE,
                    buttonPressed |-> FALSE ]
  /\ buttonContext = [ state |-> "IDLE", pressTimestamp |-> 0, releaseTimestamp |-> 0,
                       interruptPending |-> FALSE, longPressTriggered |-> FALSE ]
  /\ sensorPresent = FALSE
  /\ fallbackReadCount = 0
  /\ fastPollTimer = NotRunning
  /\ sensorTimer = NotRunning
  /\ networkState \in {"EMBER_NO_NETWORK", "EMBER_JOINED_NETWORK"}
  /\ wakeTimeoutQs = 0
  /\ appTasks = {}
  /\ attr = [a \in AttributeIds |-> Unset]
  /\ now = 0
  /\ pin = "released"
  /\ buttonCall = OutsideCall
  /\ identify = [ identifyActive |-> FALSE, identifyTimeRemaining |-> 0,
                  identifyTimer |-> NotRunning, led |-> "off",
                  identifyTimeAttribute |-> 0 ]
  /\ reading = [f |-> "none"]
  /\ ev = [h |-> "boot", arg |-> "", pre |-> "INIT", emit |-> "none"]
  /\ calls = << >>
  /\ probe = [ epConfirmed |-> FALSE, epShort |-> 0, epLong |-> 0, longEver |-> FALSE,
               hadPress |-> FALSE, pressEmits |-> 0, sinceEdge |-> 0, clean |-> TRUE,
               edges |-> 0, ticks |-> 0, seen |-> "released",
               idRun |-> FALSE, idN |-> 0, idTicks |-> 0,
               steering |-> FALSE ]

\* ---------------------------------------------------------------------------
\* Actions
\* ---------------------------------------------------------------------------
SetWorld(w) ==
  /\ appContext' = w.appContext
  /\ sensorPresent' = w.sensorPresent
  /\ fallbackReadCount' = w.fallbackReadCount
  /\ fastPollTimer' = w.fastPollTimer
  /\ sensorTimer' = w.sensorTimer
  /\ networkState' = w.networkState
  /\ wakeTimeoutQs' = w.wakeTimeoutQs
  /\ appTasks' = w.appTasks
  /\ attr' = w.attr
  /\ calls' = w.calls

WithinBounds(w) ==
  /\ w.fallbackReadCount <= MaxFallback
  /\ w.appContext.joinAttempts <= MaxJoinAttempts

Event(h, arg) == [h |-> h, arg |-> arg, pre |-> appContext.state, emit |-> "none"]

\* a handler that made these calls started steering and the stack accepted
SteeringStarted(c) ==
  \E i \in 1..Len(c) : c[i] = <<"emberAfPluginNetworkSteeringStart", 0>>

\* bookkeeping of the steering attempt: outstanding from an accepted start to
\* the steering-complete callback
Outstanding(pr, c) == [pr EXCEPT !.steering = @ \/ SteeringStarted(c)]

\* emberAfMainInitCallback: once, at startup
AppInit(E) ==
  /\ appContext.state = "INIT"
  /\ \E e \in E :
       LET w == app_init(World, e) IN
       /\ WithinBounds(w)
       /\ SetWorld(w)
  /\ ev' = Event("app_init", "")
  /\ UNCHANGED << buttonContext, now, pin, buttonCall, identify, reading, probe >>

\* emberAfStackStatusCallback: the stack reports a status; NETWORK_UP and
\* NETWORK_DOWN come with the matching emberAfNetworkState()
StackStatus ==
  /\ appContext.state # "INIT"
  /\ \E status \in StackStatuses :
       LET w0 == [World EXCEPT !.networkState =
                    CASE status = "EMBER_NETWORK_UP" -> "EMBER_JOINED_NETWORK"
                      [] status = "EMBER_NETWORK_DOWN" -> "EMBER_NO_NETWORK"
                      [] OTHER -> @]
           w == app_stack_status_callback(w0, status)
       IN /\ SetWorld(w)
          /\ ev' = Event("app_stack_status_callback", status)
  /\ UNCHANGED << buttonContext, now, pin, buttonCall, identify, reading, probe >>

\* emberAfPluginNetworkSteeringCompleteCallback: steering reports its result
SteeringComplete ==
  /\ appContext.state # "INIT"
  /\ \E status \in EmberStatuses :
       LET w0 == [World EXCEPT !.networkState =
                    IF status = "EMBER_SUCCESS" THEN "EMBER_JOINED_NETWORK" ELSE @]
           w == emberAfPluginNetworkSteeringCompleteCallback(w0, NominalEnv, status)
       IN /\ WithinBounds(w)
          /\ SetWorld(w)
          /\ ev' = Event("emberAfPluginNetworkSteeringCompleteCallback", status)
  /\ probe' = [probe EXCEPT !.steering = FALSE]
  /\ UNCHANGED << buttonContext, now, pin, buttonCall, identify, reading >>

\* the periodic sensor timer expires
SensorTimerExpiry ==
  /\ sensorTimer.running
  /\ now >= sensorTimer.expiry
  /\ \E e \in SamplingEnvs :
       LET w0 == [World EXCEPT !.sensorTimer.expiry = @ + APP_SENSOR_READ_PERIOD_MS]
           w == sensor_timer_callback(w0, e)
       IN /\ WithinBounds(w)
          /\ SetWorld(w)
  /\ ev' = Event("sensor_timer_callback", "")
  /\ UNCHANGED << buttonContext, now, pin, buttonCall, identify, reading, probe >>

\* the one-shot fast-poll timer expires
FastPollTimerExpiry ==
  /\ fastPollTimer.running
  /\ now >= fastPollTimer.expiry
  /\ SetWorld(fast_poll_timer_callback([World EXCEPT !.fastPollTimer = NotRunning]))
  /\ ev' = Event("fast_poll_timer_callback", "")
  /\ UNCHANGED << buttonContext, now, pin, buttonCall, identify, reading, probe >>

\* the button FSM reports a short press to the session
ShortPress ==
  /\ appContext.state # "INIT"
  /\ \E e \in ShortPressEnvs :
       LET w == button_short_press_callback(World, e) IN
       /\ WithinBounds(w)
       /\ SetWorld(w)
       /\ probe' = Outstanding(probe, w.calls)
  /\ ev' = Event("button_short_press_callback", "")
  /\ UNCHANGED << buttonContext, now, pin, buttonCall, identify, reading >>

\* the button FSM reports a long press to the session
LongPress ==
  /\ appContext.state # "INIT"
  /\ \E e \in LongPressEnvs :
       LET w == button_long_press_callback(World, e) IN
       /\ WithinBounds(w)
       /\ SetWorld(w)
       /\ probe' = Outstanding(probe, w.calls)
  /\ ev' = Event("button_long_press_callback", "")
  /\ UNCHANGED << buttonContext, now, pin, buttonCall, identify, reading >>

\* what button_process is waiting for: the time at which it acts next
HasDeadline(bc) ==
  \/ bc.state \in {"DEBOUNCE_PRESS", "DEBOUNCE_RELEASE"}
  \/ bc.state = "PRESSED" /\ ~bc.longPressTriggered

Deadline(bc) ==
  CASE bc.state = "DEBOUNCE_PRESS" -> bc.pressTimestamp + BUTTON_DEBOUNCE_MS
    [] bc.state = "DEBOUNCE_RELEASE" -> bc.releaseTimestamp + BUTTON_DEBOUNCE_MS
    [] OTHER -> bc.pressTimestamp + BUTTON_LONG_PRESS_MS

\* button_process has nothing to do at the present time
LoopIdle ==
  button_process(buttonContext, World, NominalEnv, pin).bc = buttonContext

\* the main loop kept up: nothing was pending when time moved on, and time
\* did not move past the next deadline of the button FSM
KeptUp(d) ==
  /\ LoopIdle
  /\ HasDeadline(buttonContext) => now + d <= Deadline(buttonContext)

\* time passes; a running timer expires before time passes its expiry
Tick(d, last, ticks) ==
  /\ appContext.state # "INIT"
  /\ buttonCall.pc = "outside"
  /\ now + d <= last
  /\ probe.ticks < ticks
  /\ fastPollTimer.running => now + d <= fastPollTimer.expiry
  /\ sensorTimer.running => now + d <= sensorTimer.expiry
  /\ now' = now + d
  /\ probe' = [probe EXCEPT
       !.ticks = @ + 1,
       !.sinceEdge = Min(@ + d, BUTTON_DEBOUNCE_MS + 1),
       !.clean = @ /\ KeptUp(d)]
  /\ ev' = Event("tick", "")
  /\ calls' = << >>
  /\ UNCHANGED << appContext, buttonContext, sensorPresent, fallbackReadCount,
                  fastPollTimer, sensorTimer, networkState, wakeTimeoutQs,
                  appTasks, attr, pin, buttonCall, identify, reading >>

SessionTick ==
  \E d \in SessionSteps : Tick(d, MaxSessionTime, MaxSessionTime \div d)

ButtonTick ==
  \E d \in ButtonSteps : Tick(d, MaxTicks * BUTTON_LONG_PRESS_MS, MaxTicks)

\* the pin changes level; the GPIO interrupt fires on both edges
PinEdge ==
  /\ appContext.state # "INIT"
  /\ probe.edges < MaxEdges
  /\ pin' = IF pin = "pressed" THEN "released" ELSE "pressed"
  /\ buttonContext' = button_gpio_callback(buttonContext)
  /\ probe' =
       IF pin = "released"
       THEN [probe EXCEPT
               !.edges = @ + 1,
               !.hadPress = TRUE, !.pressEmits = 0, !.sinceEdge = 0,
               !.clean = @ /\ (probe.hadPress => probe.sinceEdge > BUTTON_DEBOUNCE_MS)]
       ELSE [probe EXCEPT
               !.edges = @ + 1,
               !.sinceEdge = 0,
               !.clean = @ /\ probe.sinceEdge > BUTTON_DEBOUNCE_MS]
  /\ ev' = Event("button_gpio_callback", "")
  /\ calls' = << >>
  /\ UNCHANGED << appContext, sensorPresent, fallbackReadCount, fastPollTimer,
                  sensorTimer, networkState, wakeTimeoutQs, appTasks, attr, now,
                  buttonCall, identify, reading >>

\* what one button_process call adds to the bookkeeping: bc is the context
\* the call started from, r what it returned, level the pin level it read
Observed(pr, bc, r, level) ==
  LET leftIdle == bc.state = "IDLE" /\ r.bc.state # "IDLE"
      confirmed == bc.state = "DEBOUNCE_PRESS" /\ r.bc.state = "PRESSED"
  IN [pr EXCEPT
        !.epConfirmed = IF leftIdle THEN FALSE ELSE (@ \/ confirmed),
        !.epShort = IF leftIdle THEN 0 ELSE @ + (IF r.emit = "short" THEN 1 ELSE 0),
        !.epLong = IF leftIdle THEN 0 ELSE @ + (IF r.emit = "long" THEN 1 ELSE 0),
        !.longEver = @ \/ r.emit = "long",
        !.pressEmits = @ + (IF r.emit = "none" THEN 0 ELSE 1),
        !.seen = IF bc.state \in FlagStates /\ bc.interruptPending THEN level ELSE @]

\* emberAfMainTickCallback: one pass of the main loop, no interrupt inside
\* button_process
MainTick ==
  /\ appContext.state # "INIT"
  /\ buttonCall.pc = "outside"
  /\ \E e \in MainTickEnvs :
       LET r == app_process_action(buttonContext, World, e, pin)
       IN /\ WithinBounds(r.w)
          /\ SetWorld(r.w)
          /\ buttonContext' = r.bc
          /\ ev' = [Event("app_process_action", "") EXCEPT !.emit = r.emit]
          /\ probe' = Outstanding(Observed(probe, buttonContext, r, pin), r.w.calls)
  /\ UNCHANGED << now, pin, buttonCall, identify, reading >>

\* one pass of the main loop that finds interruptPending set in a case that
\* consumes it, up to the first of its two accesses: the store of false or,
\* in a build that reads the pin first, the read of the pin
ButtonProcessBegin ==
  /\ appContext.state # "INIT"
  /\ buttonCall.pc = "outside"
  /\ buttonContext.state \in FlagStates
  /\ buttonContext.interruptPending
  /\ \E order \in AccessOrders :
       /\ buttonCall' = [pc |-> "inside", order |-> order, level |-> pin]
       /\ buttonContext' = IF order = "store_then_read"
                            THEN [buttonContext EXCEPT !.interruptPending = FALSE]
                            ELSE buttonContext
       /\ ev' = Event("app_process_action", order)
  /\ calls' = << >>
  /\ UNCHANGED << appContext, sensorPresent, fallbackReadCount, fastPollTimer,
                  sensorTimer, networkState, wakeTimeoutQs, appTasks, attr, now,
                  pin, identify, reading, probe >>

\* the rest of that pass: the second access and the state's case, worked on
\* the level that was read; an interrupt taken since the first access has
\* set interruptPending again unless the store comes second
ButtonProcessFinish ==
  /\ buttonCall.pc = "inside"
  /\ \E e \in MainTickEnvs :
       LET storeFirst == buttonCall.order = "store_then_read"
           level == IF storeFirst THEN pin ELSE buttonCall.level
           bc == [buttonContext EXCEPT !.interruptPending = TRUE]
           r == app_process_action(bc, World, e, level)
       IN /\ WithinBounds(r.w)
          /\ SetWorld(r.w)
          /\ buttonContext' = [r.bc EXCEPT !.interruptPending =
                                 storeFirst /\ buttonContext.interruptPending]
          /\ ev' = [Event("app_process_action", "") EXCEPT !.emit = r.emit]
          /\ probe' = Outstanding(Observed(probe, bc, r, level), r.w.calls)
  /\ buttonCall' = OutsideCall
  /\ UNCHANGED << now, pin, identify, reading >>

\* sht31_read called on its own, with what the bus does during the call
SensorRead ==
  /\ appContext.state # "INIT"
  /\ \E wr \in BOOLEAN, rd \in BOOLEAN, frame \in SensorFrames :
       LET e == Env("EMBER_SUCCESS", "EMBER_SUCCESS",
                    [i2cWrite |-> wr, i2cRead |-> rd, frame |-> frame], 2840)
           r == sht31_read(World, e)
       IN /\ r.w.fallbackReadCount <= MaxDriverFallback
          /\ SetWorld(r.w)
          /\ reading' = [ f |-> "sht31_read", sensorPresent |-> sensorPresent,
                          fallbackReadCount |-> fallbackReadCount,
                          i2cWrite |-> wr, i2cRead |-> rd, frame |-> frame,
                          ok |-> r.ok, temperature_c |-> r.temperature_c,
                          humidity_rh |-> r.humidity_rh ]
  /\ ev' = Event("sht31_read", "")
  /\ UNCHANGED << buttonContext, now, pin, buttonCall, identify, probe >>

\* the Identify command arrives with an identify time
IdentifyCommand ==
  /\ buttonCall.pc = "outside"
  /\ \E identifyTime \in 0..MaxIdentifyTime :
       LET s == emberAfIdentifyClusterIdentifyCallback(IdentifyWorld, now, identifyTime)
       IN /\ identify' = s.id
          /\ calls' = s.calls
          /\ ev' = Event("emberAfIdentifyClusterIdentifyCallback", "")
          /\ probe' = [probe EXCEPT
               !.idRun = identifyTime > 0 /\ ~identify.identifyActive,
               !.idN = identifyTime,
               !.idTicks = 0]
  /\ UNCHANGED << appContext, buttonContext, sensorPresent, fallbackReadCount,
                  fastPollTimer, sensorTimer, networkState, wakeTimeoutQs,
                  appTasks, attr, now, pin, buttonCall, reading >>

\* the Identify command arrives and its handler runs up to the store of the
\* new time; the identify timer callback, which the sleeptimer calls from its
\* interrupt, can run before the handler goes on
IdentifyCommandBegin ==
  /\ buttonCall.pc = "outside"
  /\ \E identifyTime \in 0..MaxIdentifyTime :
       /\ identify' = IdentifyCommandStore(IdentifyWorld, identifyTime).id
       /\ probe' = [probe EXCEPT
            !.idRun = identifyTime > 0 /\ ~identify.identifyActive,
            !.idN = identifyTime,
            !.idTicks = 0]
  /\ buttonCall' = [buttonCall EXCEPT !.pc = "identify"]
  /\ calls' = << >>
  /\ ev' = Event("emberAfIdentifyClusterIdentifyCallback", "store")
  /\ UNCHANGED << appContext, buttonContext, sensorPresent, fallbackReadCount,
                  fastPollTimer, sensorTimer, networkState, wakeTimeoutQs,
                  appTasks, attr, now, pin, reading >>

\* the command handler goes on from the test of identifyTime to its return
IdentifyCommandFinish ==
  /\ buttonCall.pc = "identify"
  /\ LET s == IdentifyCommandRest(IdentifyWorld, now, probe.idN)
     IN /\ identify' = s.id
        /\ calls' = s.calls
  /\ buttonCall' = OutsideCall
  /\ ev' = Event("emberAfIdentifyClusterIdentifyCallback", "rest")
  /\ UNCHANGED << appContext, buttonContext, sensorPresent, fallbackReadCount,
                  fastPollTimer, sensorTimer, networkState, wakeTimeoutQs,
                  appTasks, attr, now, pin, reading, probe >>

\* the periodic identify timer expires
IdentifyTimerExpiry ==
  /\ identify.identifyTimer.running
  /\ now >= identify.identifyTimer.expiry
  /\ LET s0 == [IdentifyWorld EXCEPT !.id.identifyTimer.expiry = @ + IdentifyPeriodMs]
         s == identify_timer_callback(s0)
     IN /\ identify' = s.id
        /\ calls' = s.calls
  /\ ev' = Event("identify_timer_callback", "")
  /\ probe' = [probe EXCEPT
       !.idTicks = @ + (IF identify.identifyTimeRemaining > 0 THEN 1 ELSE 0)]
  /\ UNCHANGED << appContext, buttonContext, sensorPresent, fallbackReadCount,
                  fastPollTimer, sensorTimer, networkState, wakeTimeoutQs,
                  appTasks, attr, now, pin, buttonCall, reading >>

\* time passes in the identify specification; the running identify timer
\* expires before time passes its expiry
IdentifyTimePasses ==
  /\ buttonCall.pc = "outside"
  /\ probe.ticks < MaxIdentifySteps
  /\ identify.identifyTimer.running =>
       now + IdentifyStepMs <= identify.identifyTimer.expiry
  /\ now' = now + IdentifyStepMs
  /\ probe' = [probe EXCEPT !.ticks = @ + 1]
  /\ ev' = Event("tick", "")
  /\ calls' = << >>
  /\ UNCHANGED << appContext, buttonContext, sensorPresent, fallbackReadCount,
                  fastPollTimer, sensorTimer, networkState, wakeTimeoutQs,
                  appTasks, attr, pin, buttonCall, identify, reading >>

\* calculate_crc called on two data bytes
CrcCall ==
  /\ reading.f = "none"
  /\ \E b1 \in Bytes, b2 \in Bytes :
       reading' = [ f |-> "calculate_crc", data |-> <<b1, b2>>,
                    crc |-> calculate_crc(<<b1, b2>>, 2) ]
  /\ ev' = Event("calculate_crc", "")
  /\ UNCHANGED << appContext, buttonContext, sensorPresent, fallbackReadCount,
                  fastPollTimer, sensorTimer, networkState, wakeTimeoutQs,
                  appTasks, attr, now, pin, buttonCall, identify, calls, probe >>

\* battery_voltage_to_percentage called on a voltage
PercentageCall ==
  /\ reading.f = "none"
  /\ \E mv \in Uint16 :
       reading' = [ f |-> "battery_voltage_to_percentage", voltage_mv |-> mv,
                    percentage |-> battery_voltage_to_percentage(mv) ]
  /\ ev' = Event("battery_voltage_to_percentage", "")
  /\ UNCHANGED << appContext, buttonContext, sensorPresent, fallbackReadCount,
                  fastPollTimer, sensorTimer, networkState, wakeTimeoutQs,
                  appTasks, attr, now, pin, buttonCall, identify, calls, probe >>

\* ---------------------------------------------------------------------------
\* Specifications
\* ---------------------------------------------------------------------------
\* the session state machine under every order of its events
Next ==
  \/ AppInit(SamplingEnvs)
  \/ StackStatus
  \/ SteeringComplete
  \/ SensorTimerExpiry
  \/ FastPollTimerExpiry
  \/ ShortPress
  \/ LongPress
  \/ SessionTick

Spec == Init /\ [][Next]_vars

\* the button state machine driven by the pin, the clock and the main loop
NextButton ==
  \/ AppInit({NominalEnv})
  \/ ButtonTick
  \/ PinEdge
  \/ MainTick

SpecButton == Init /\ [][NextButton]_vars

\* the same, with the pin interrupt taken inside button_process as well
NextIsr ==
  \/ AppInit({NominalEnv})
  \/ ButtonTick
  \/ PinEdge
  \/ MainTick
  \/ ButtonProcessBegin
  \/ ButtonProcessFinish

SpecIsr == Init /\ [][NextIsr]_vars

\* the sensor driver under every behaviour of the bus
NextSensor ==
  \/ AppInit(SamplingEnvs)
  \/ SensorRead

SpecSensor == Init /\ [][NextSensor]_vars

\* the pure functions of the drivers on every input
NextFunctions ==
  \/ CrcCall
  \/ PercentageCall

SpecFunctions == Init /\ [][NextFunctions]_vars

\* the identify handlers of zcl_callbacks.c
NextIdentify ==
  \/ IdentifyCommand
  \/ IdentifyTimerExpiry
  \/ IdentifyTimePasses

SpecIdentify == Init /\ [][NextIdentify]_vars

\* the same, with the timer interrupt taken inside the command handler as well
NextIdentifyIsr ==
  \/ IdentifyCommand
  \/ IdentifyCommandBegin
  \/ IdentifyCommandFinish
  \/ IdentifyTimerExpiry
  \/ IdentifyTimePasses

SpecIdentifyIsr == Init /\ [][NextIdentifyIsr]_vars

\* ---------------------------------------------------------------------------
\* Properties
\* ---------------------------------------------------------------------------
Made(c, f) == \E i \in 1..Len(c) : c[i][1] = f

Returned(c, f, a) == \E i \in 1..Len(c) : c[i] = <<f, a>>

BatteryWritten(c) ==
  Made(c, "ZCL_BATTERY_VOLTAGE") /\ Made(c, "ZCL_BATTERY_PERCENTAGE_REMAINING")

ClimateWritten(c) ==
  Made(c, "ZCL_TEMP_MEASURED_VALUE") /\ Made(c, "ZCL_RELATIVE_HUMIDITY_MEASURED_VALUE")

\* C1: after every handler, fastPollActive is true exactly when the phase is
\* JOINED_FAST_POLL.
FastPollIffPhase ==
  appContext.fastPollActive <=> appContext.state = "JOINED_FAST_POLL"

\* C2: when the main loop keeps up and every press is held longer than the
\* debounce time and followed by a release longer than the debounce time,
\* no press gets more than one callback, and once the FSM is back in IDLE
\* with the pin released the last press has got exactly one.
EveryPressEmitsOnce ==
  probe.clean =>
    /\ probe.pressEmits <= 1
    /\ (buttonContext.state = "IDLE" /\ pin = "released" /\ probe.hadPress)
         => probe.pressEmits = 1

LongPressOncePerEpisode == probe.epLong <= 1

\* C4 witness: the long press has fired, a release was rejected as a bounce
\* and the FSM is back in PRESSED past the threshold
HeldAfterLongPressAndBounce ==
  /\ buttonContext.state = "PRESSED"
  /\ buttonContext.longPressTriggered
  /\ probe.epLong = 1
  /\ Sub32(now, buttonContext.pressTimestamp) >= BUTTON_LONG_PRESS_MS

\* C5 as stated: in IDLE longPressTriggered is false.
IdleImpliesNotLongFired ==
  buttonContext.state = "IDLE" => ~buttonContext.longPressTriggered

\* C5 as amended: in IDLE longPressTriggered is false as long as no long press
\* has fired since boot, and every confirmation of a press (DEBOUNCE_PRESS to
\* PRESSED) clears it.
LongFiredClearedOnConfirm ==
  /\ [](buttonContext.state = "IDLE" /\ ~probe.longEver
          => ~buttonContext.longPressTriggered)
  /\ [][buttonContext.state = "DEBOUNCE_PRESS" /\ buttonContext'.state = "PRESSED"
          => ~buttonContext'.longPressTriggered]_vars

\* C5 witness: a press confirmed after an earlier long press
ConfirmedAfterLongPress ==
  /\ buttonContext.state = "PRESSED"
  /\ ~buttonContext.longPressTriggered
  /\ probe.longEver
  /\ probe.epConfirmed
  /\ probe.epLong = 0

\* C6: the first button_process call that finds a confirmed press held for
\* the long threshold invokes the long-press callback, and the callback is
\* invoked only while the pin is still pressed.
LongPressWhileHeld ==
  [][ev'.h = "app_process_action" =>
        /\ (buttonContext.state = "PRESSED" /\ pin = "pressed"
              /\ LongPressDue(buttonContext, now)) => ev'.emit = "long"
        /\ ev'.emit = "long" => pin = "pressed"]_vars

\* C7: a sensor-timer expiry outside JOINED_FAST_POLL and JOINED_NORMAL reads
\* nothing and writes nothing.
SensorTickGated ==
  [][(ev'.h = "sensor_timer_callback" /\ ~Joined(appContext.state)) =>
        /\ calls' = << >>
        /\ attr' = attr
        /\ sensorPresent' = sensorPresent
        /\ fallbackReadCount' = fallbackReadCount]_vars

\* C7 witness: the timer expired while not joined
SensorTickWhileNotJoined ==
  /\ ev.h = "sensor_timer_callback"
  /\ ev.pre = "NOT_JOINED"
  /\ calls = << >>

\* C8 as stated: every sensor tick in a joined phase writes all four
\* measurement attributes and keeps the phase.
SensorTickWritesAll ==
  (ev.h = "sensor_timer_callback" /\ Joined(ev.pre)) =>
    /\ Made(calls, "sht31_read")
    /\ Made(calls, "battery_read_voltage")
    /\ ClimateWritten(calls)
    /\ BatteryWritten(calls)
    /\ appContext.state = ev.pre

\* C8 as amended: every sensor tick in a joined phase reads the sensor and
\* the battery, writes both battery attributes and keeps the phase; it writes
\* temperature and humidity exactly when sht31_read returned true or the
\* sensor was absent at init.
SensorTickWritesWhatWasRead ==
  [][(ev'.h = "sensor_timer_callback" /\ Joined(appContext.state)) =>
        /\ Made(calls', "sht31_read")
        /\ Made(calls', "battery_read_voltage")
        /\ BatteryWritten(calls')
        /\ appContext'.state = appContext.state
        /\ ClimateWritten(calls') <=>
             (Returned(calls', "sht31_read", 1) \/ ~appContext.sensorInitialized)
        /\ ~ClimateWritten(calls') =>
             /\ attr'["ZCL_TEMP_MEASURED_VALUE"] = attr["ZCL_TEMP_MEASURED_VALUE"]
             /\ attr'["ZCL_RELATIVE_HUMIDITY_MEASURED_VALUE"] =
                  attr["ZCL_RELATIVE_HUMIDITY_MEASURED_VALUE"]]_vars

\* C8 witness: a tick in a joined phase on which the read of a sensor that was
\* present at init failed
SensorTickReadFailed ==
  /\ ev.h = "sensor_timer_callback"
  /\ Joined(ev.pre)
  /\ appContext.sensorInitialized
  /\ Returned(calls, "sht31_read", 0)
  /\ BatteryWritten(calls)
  /\ ~ClimateWritten(calls)

\* C9: join_complete(success) in JOINING gives JOINED_FAST_POLL with fast poll
\* on (wake timeout 2, WAITING_FOR_DATA_ACK set), the fast-poll timer armed
\* for 30000 ms, joinTimestamp stamped and joinAttempts unchanged.
JoinSuccessArmsFastPoll ==
  [][(ev'.h = "emberAfPluginNetworkSteeringCompleteCallback"
        /\ ev'.arg = "EMBER_SUCCESS" /\ appContext.state = "JOINING") =>
        /\ appContext'.state = "JOINED_FAST_POLL"
        /\ appContext'.fastPollActive
        /\ wakeTimeoutQs' = APP_FAST_POLL_INTERVAL_QS
        /\ "EMBER_AF_WAITING_FOR_DATA_ACK" \in appTasks'
        /\ fastPollTimer' = [running |-> TRUE, expiry |-> now + APP_FAST_POLL_TIMEOUT_MS]
        /\ appContext'.joinTimestamp = now
        /\ appContext'.joinAttempts = appContext.joinAttempts]_vars

\* C10: join_complete(fail) sets NOT_JOINED and adds one to joinAttempts, and
\* nothing else changes joinAttempts.
JoinAttemptsCountsFailures ==
  [][IF ev'.h = "emberAfPluginNetworkSteeringCompleteCallback"
          /\ ev'.arg # "EMBER_SUCCESS"
       THEN /\ appContext'.state = "NOT_JOINED"
            /\ appContext'.joinAttempts = (appContext.joinAttempts + 1) % 256
       ELSE appContext'.joinAttempts = appContext.joinAttempts]_vars

\* C10 witness: a failed join has been counted
JoinFailureCounted ==
  /\ ev.h = "emberAfPluginNetworkSteeringCompleteCallback"
  /\ ev.arg = "EMBER_ERR_FATAL"
  /\ appContext.state = "NOT_JOINED"
  /\ appContext.joinAttempts = 1

\* C11: a fast-poll timer expiry in JOINED_FAST_POLL gives JOINED_NORMAL with
\* the wake timeout written as 30, WAITING_FOR_DATA_ACK removed and
\* fastPollActive false; in every other phase it changes neither the phase
\* nor the poll settings and makes no call.
FastPollExpiryEffect ==
  [][ev'.h = "fast_poll_timer_callback" =>
        IF appContext.state = "JOINED_FAST_POLL"
        THEN /\ appContext'.state = "JOINED_NORMAL"
             /\ Returned(calls', "emberAfSetWakeTimeoutQsCallback",
                          APP_NORMAL_POLL_INTERVAL_QS)
             /\ wakeTimeoutQs' = APP_NORMAL_POLL_INTERVAL_QS
             /\ Made(calls', "emberAfRemoveFromCurrentAppTasksCallback")
             /\ "EMBER_AF_WAITING_FOR_DATA_ACK" \notin appTasks'
             /\ ~appContext'.fastPollActive
        ELSE /\ appContext'.state = appContext.state
             /\ appContext'.fastPollActive = appContext.fastPollActive
             /\ wakeTimeoutQs' = wakeTimeoutQs
             /\ appTasks' = appTasks
             /\ calls' = << >>]_vars

\* C11 witness: the timer expired in JOINED_FAST_POLL
FastPollExpiredInFastPoll ==
  /\ ev.h = "fast_poll_timer_callback"
  /\ ev.pre = "JOINED_FAST_POLL"
  /\ appContext.state = "JOINED_NORMAL"
  /\ ~appContext.fastPollActive
  /\ wakeTimeoutQs = APP_NORMAL_POLL_INTERVAL_QS

\* C12: the fast-poll expiry that moves the phase from JOINED_FAST_POLL to
\* JOINED_NORMAL comes 30000 ms after the join that entered JOINED_FAST_POLL,
\* and while the phase is JOINED_FAST_POLL the timer is armed for that time.
FastPollWindowLastsTimeout ==
  /\ appContext.state = "JOINED_FAST_POLL" =>
       fastPollTimer = [running |-> TRUE,
                        expiry |-> appContext.joinTimestamp + APP_FAST_POLL_TIMEOUT_MS]
  /\ (ev.h = "fast_poll_timer_callback" /\ ev.pre = "JOINED_FAST_POLL") =>
       now = appContext.joinTimestamp + APP_FAST_POLL_TIMEOUT_MS

Press(h) == h = "button_short_press_callback" \/ h = "button_long_press_callback"

\* C13 as stated: a short or long press in NOT_JOINED invokes start_steering
\* and leaves the phase at JOINING.
PressInNotJoinedJoins ==
  (Press(ev.h) /\ ev.pre = "NOT_JOINED") =>
    /\ Made(calls, "emberAfPluginNetworkSteeringStart")
    /\ appContext.state = "JOINING"

\* C13 as amended: a short or long press in NOT_JOINED while the stack is not
\* on a network invokes start_steering once; the phase is JOINING when the
\* stack accepted the start and NOT_JOINED when it refused it.  While the
\* stack reports a network, steering is not started: the short press changes
\* nothing and the long press takes the leave path.
PressInNotJoinedStartsSteering ==
  [][(Press(ev'.h) /\ appContext.state = "NOT_JOINED") =>
        IF networkState # "EMBER_JOINED_NETWORK"
        THEN /\ Len(calls') = 1
             /\ Made(calls', "emberAfPluginNetworkSteeringStart")
             /\ appContext'.state =
                  IF Returned(calls', "emberAfPluginNetworkSteeringStart", 0)
                  THEN "JOINING" ELSE "NOT_JOINED"
        ELSE /\ ~Made(calls', "emberAfPluginNetworkSteeringStart")
             /\ ev'.h = "button_short_press_callback" =>
                  (calls' = << >> /\ appContext'.state = "NOT_JOINED")
             /\ ev'.h = "button_long_press_callback" =>
                  (Made(calls', "emberLeaveNetwork") /\ appContext'.state = "LEAVING")]_vars

\* C13 witness: a press in NOT_JOINED whose steering start the stack refused
PressInNotJoinedRefused ==
  /\ Press(ev.h)
  /\ ev.pre = "NOT_JOINED"
  /\ Returned(calls, "emberAfPluginNetworkSteeringStart", 1)
  /\ appContext.state = "NOT_JOINED"

Count(c, f) == Cardinality({i \in 1..Len(c) : c[i][1] = f})

FastPollDisabled(c) ==
  /\ Returned(c, "emberAfSetWakeTimeoutQsCallback", APP_NORMAL_POLL_INTERVAL_QS)
  /\ Made(c, "emberAfRemoveFromCurrentAppTasksCallback")

NetworkDownDisablesFastPoll ==
  [][(ev'.h = "app_stack_status_callback" /\ ev'.arg = "EMBER_NETWORK_DOWN"
        /\ appContext.state \in {"JOINED_FAST_POLL", "JOINED_NORMAL", "LEAVING"}) =>
        /\ appContext'.state = "NOT_JOINED"
        /\ ~appContext'.fastPollActive
        /\ "EMBER_AF_WAITING_FOR_DATA_ACK" \notin appTasks'
        /\ IF appContext.fastPollActive
           THEN /\ FastPollDisabled(calls')
                /\ wakeTimeoutQs' = APP_NORMAL_POLL_INTERVAL_QS
           ELSE /\ calls' = << >>
                /\ wakeTimeoutQs' = wakeTimeoutQs]_vars

\* C15 witness: the network went down during fast poll
NetworkDownInFastPoll ==
  /\ ev.h = "app_stack_status_callback"
  /\ ev.arg = "EMBER_NETWORK_DOWN"
  /\ ev.pre = "JOINED_FAST_POLL"
  /\ appContext.state = "NOT_JOINED"
  /\ FastPollDisabled(calls)

\* C16: a NETWORK_UP in JOINED_FAST_POLL or JOINED_NORMAL changes neither the
\* phase nor fastPollActive, writes no wake timeout, touches no task and
\* leaves the fast-poll timer as it is.
NetworkUpWhileJoinedIsNoOp ==
  [][(ev'.h = "app_stack_status_callback" /\ ev'.arg = "EMBER_NETWORK_UP"
        /\ Joined(appContext.state)) =>
        /\ appContext' = appContext
        /\ calls' = << >>
        /\ wakeTimeoutQs' = wakeTimeoutQs
        /\ appTasks' = appTasks
        /\ fastPollTimer' = fastPollTimer]_vars

\* C16 witness: a NETWORK_UP arrived during fast poll
NetworkUpInFastPoll ==
  /\ ev.h = "app_stack_status_callback"
  /\ ev.arg = "EMBER_NETWORK_UP"
  /\ ev.pre = "JOINED_FAST_POLL"
  /\ appContext.state = "JOINED_FAST_POLL"
  /\ appContext.fastPollActive

\* C17: app_start_join in JOINING (reached through a long press, which calls
\* it whenever the stack is not on a network) does not start steering and
\* changes no field of the session, the phase, fastPollActive and
\* joinAttempts included.
StartJoinWhileJoiningIsNoOp ==
  [][(ev'.h = "button_long_press_callback" /\ appContext.state = "JOINING"
        /\ networkState # "EMBER_JOINED_NETWORK") =>
        /\ calls' = << >>
        /\ appContext' = appContext
        /\ networkState' = networkState]_vars

\* C17 witness: a join was requested during JOINING
StartJoinRequestedWhileJoining ==
  /\ ev.h = "button_long_press_callback"
  /\ ev.pre = "JOINING"
  /\ networkState # "EMBER_JOINED_NETWORK"
  /\ appContext.state = "JOINING"
  /\ calls = << >>

\* C18: in every reachable state, app_set_fast_poll(true) called twice in a
\* row writes the wake timeout and adds the task once if fast poll was off
\* and not at all if it was on, the second call changing nothing;
\* app_set_fast_poll(false) on inactive fast poll makes no call and changes
\* nothing, and called twice behaves as called once.  A join success that
\* finds fast poll already on makes no poll call.
SetFastPollIdempotent ==
  /\ [](LET on1 == app_set_fast_poll(World, TRUE)
            on2 == app_set_fast_poll(on1, TRUE)
            off1 == app_set_fast_poll(World, FALSE)
            off2 == app_set_fast_poll(off1, FALSE)
            once == IF appContext.fastPollActive THEN 0 ELSE 1
        IN /\ on2 = on1
           /\ on1.appContext.fastPollActive
           /\ Count(on2.calls, "emberAfSetWakeTimeoutQsCallback") = once
           /\ Count(on2.calls, "emberAfAddToCurrentAppTasksCallback") = once
           /\ off2 = off1
           /\ ~off1.appContext.fastPollActive
           /\ Len(off2.calls) = 2 * (1 - once)
           /\ ~appContext.fastPollActive => off1 = World)
  /\ [][(ev'.h = "emberAfPluginNetworkSteeringCompleteCallback"
           /\ ev'.arg = "EMBER_SUCCESS") =>
          /\ Count(calls', "emberAfSetWakeTimeoutQsCallback") =
               (IF appContext.fastPollActive THEN 0 ELSE 1)
          /\ Count(calls', "emberAfAddToCurrentAppTasksCallback") =
               (IF appContext.fastPollActive THEN 0 ELSE 1)
          /\ appContext'.fastPollActive]_vars

\* C18 witness: app_set_fast_poll(true) ran with fast poll already on, in a
\* join success that arrived during JOINED_FAST_POLL
FastPollEnabledTwice ==
  /\ ev.h = "emberAfPluginNetworkSteeringCompleteCallback"
  /\ ev.arg = "EMBER_SUCCESS"
  /\ ev.pre = "JOINED_FAST_POLL"
  /\ appContext.fastPollActive
  /\ ~Made(calls, "emberAfSetWakeTimeoutQsCallback")
  /\ Made(calls, "sl_sleeptimer_start_timer_ms")

AttributeWritten(c) == \E i \in 1..Len(c) : c[i][1] \in AttributeIds

I2cTransferred(c) == Made(c, "i2c_write_command") \/ Made(c, "i2c_read_data")

TimerCallbacks == {"sensor_timer_callback", "fast_poll_timer_callback"}

\* C19: a timer-expiry callback writes no attribute and makes no I2C
\* transfer; attributes are written only by handlers that run in the main
\* loop.
TimerCallbacksDoNoIo ==
  /\ ev.h \in TimerCallbacks => (~AttributeWritten(calls) /\ ~I2cTransferred(calls))
  /\ AttributeWritten(calls) =>
       ev.h \in {"app_init", "app_process_action", "button_short_press_callback"}

AfterInit ==
  ev.h = "app_init" =>
    /\ sensorTimer = [running |-> TRUE, expiry |-> now + APP_SENSOR_READ_PERIOD_MS]
    /\ Returned(calls, "sl_sleeptimer_start_periodic_timer_ms", APP_SENSOR_READ_PERIOD_MS)
    /\ ~appContext.fastPollActive
    /\ ~fastPollTimer.running
    /\ IF networkState = "EMBER_JOINED_NETWORK"
       THEN /\ appContext.state = "JOINED_NORMAL"
            /\ Count(calls, "sht31_read") = 1
            /\ Count(calls, "battery_read_voltage") = 1
            /\ Count(calls, "ZCL_BATTERY_VOLTAGE") = 1
            /\ Count(calls, "ZCL_BATTERY_PERCENTAGE_REMAINING") = 1
            /\ Count(calls, "ZCL_TEMP_MEASURED_VALUE") <= 1
            /\ Count(calls, "ZCL_RELATIVE_HUMIDITY_MEASURED_VALUE") <= 1
       ELSE /\ appContext.state = "NOT_JOINED"
            /\ ~Made(calls, "sht31_read")
            /\ ~Made(calls, "battery_read_voltage")
            /\ ~AttributeWritten(calls)
            /\ \A a \in AttributeIds : attr[a] = Unset

\* C21 witness: app_init found the stack on a network and sampled once
InitSampledOnce ==
  /\ ev.h = "app_init"
  /\ appContext.state = "JOINED_NORMAL"
  /\ Count(calls, "sht31_read") = 1
  /\ BatteryWritten(calls)

FrameCrcsVerify(b) ==
  /\ calculate_crc(<<b[1], b[2]>>, 2) = b[3]
  /\ calculate_crc(<<b[4], b[5]>>, 2) = b[6]

IsFallback(r) ==
  /\ r.temperature_c =
       CeilDiv(FallbackTemperature(r.fallbackReadCount + 1) * FloatScale, 100)
  /\ r.humidity_rh =
       CeilDiv(FallbackHumidity(r.fallbackReadCount + 1) * FloatScale, 100)

\* C22: sht31_read returns true exactly when the sensor is present, both
\* transfers succeed and both checksums of the frame verify, and then both
\* values come from the frame; in every other case, a mismatch of either
\* checksum included, it returns false and both values are the fallback
\* values.
ReadAcceptsVerifiedFrames ==
  reading.f = "sht31_read" =>
    LET b == reading.frame
        accepted == /\ reading.sensorPresent
                    /\ reading.i2cWrite
                    /\ reading.i2cRead
                    /\ FrameCrcsVerify(b)
    IN /\ reading.ok <=> accepted
       /\ accepted =>
            /\ reading.temperature_c = 175 * (b[1] * 256 + b[2]) - 45 * FloatScale
            /\ reading.humidity_rh = 100 * (b[4] * 256 + b[5])
            /\ fallbackReadCount = reading.fallbackReadCount
       /\ ~accepted =>
            /\ IsFallback(reading)
            /\ fallbackReadCount = reading.fallbackReadCount + 1

\* C22 witness: a frame whose temperature checksum verifies and whose
\* humidity checksum does not was refused
FrameWithBadHumidityCrcRefused ==
  /\ reading.f = "sht31_read"
  /\ reading.sensorPresent /\ reading.i2cWrite /\ reading.i2cRead
  /\ calculate_crc(<<reading.frame[1], reading.frame[2]>>, 2) = reading.frame[3]
  /\ calculate_crc(<<reading.frame[4], reading.frame[5]>>, 2) # reading.frame[6]
  /\ ~reading.ok
  /\ IsFallback(reading)

\* C23: a sht31_read whose command write or data read fails sets
\* sensorPresent to false and returns fallback values; a sht31_read that
\* finds sensorPresent false makes no I2C transfer and returns fallback
\* values; and once app_init has run, sensorPresent never goes from false to
\* true.
TransferFailureDemotesForGood ==
  /\ [][ev'.h = "sht31_read" =>
          /\ (sensorPresent /\ (~reading'.i2cWrite \/ ~reading'.i2cRead)) =>
               /\ ~sensorPresent'
               /\ ~reading'.ok
               /\ IsFallback(reading')
          /\ ~sensorPresent =>
               /\ ~sensorPresent'
               /\ calls' = << >>
               /\ ~reading'.ok
               /\ IsFallback(reading')]_vars
  /\ [][(appContext.state # "INIT" /\ ~sensorPresent) => ~sensorPresent']_vars

\* C23 witness: a read after the demotion of a sensor that was present at
\* init, made without any transfer
ReadAfterDemotion ==
  /\ reading.f = "sht31_read"
  /\ appContext.sensorInitialized
  /\ ~reading.sensorPresent
  /\ reading.fallbackReadCount >= 1
  /\ calls = << >>
  /\ ~reading.ok

\* C24: a sht31_read whose transfers succeed and whose frame fails a checksum
\* returns fallback values and leaves sensorPresent true, and every
\* sht31_read that finds sensorPresent true starts with the measurement
\* command on the bus.
CrcMismatchKeepsSensor ==
  [][ev'.h = "sht31_read" =>
        /\ (sensorPresent /\ reading'.i2cWrite /\ reading'.i2cRead
              /\ ~FrameCrcsVerify(reading'.frame)) =>
             /\ sensorPresent'
             /\ ~reading'.ok
             /\ IsFallback(reading')
             /\ fallbackReadCount' = fallbackReadCount + 1
        /\ sensorPresent =>
             (Len(calls') >= 1 /\ calls'[1][1] = "i2c_write_command")]_vars

\* C24 witness: a frame was accepted after an earlier checksum mismatch
FrameAcceptedAfterCrcMismatch ==
  /\ reading.f = "sht31_read"
  /\ reading.sensorPresent
  /\ reading.fallbackReadCount >= 1
  /\ reading.ok
  /\ Made(calls, "i2c_read_data")

\* CRC-8 by its definition: the remainder of the message, with 0xFF added to
\* its first byte and eight zero bits appended, divided by
\* x^8 + x^5 + x^4 + 1 over GF(2), most significant bit first
RECURSIVE PolyRemainder(_, _)
PolyRemainder(v, bit) ==
  IF bit < 8 THEN v
  ELSE IF (v \div (2 ^ bit)) % 2 = 1
    THEN PolyRemainder(BitXor(v, (256 + CRC_POLYNOMIAL) * (2 ^ (bit - 8))), bit - 1)
    ELSE PolyRemainder(v, bit - 1)

Crc8Reference(b1, b2) == PolyRemainder(BitXor(b1, 255) * 65536 + b2 * 256, 23)

\* C25: for every pair of bytes calculate_crc is the CRC-8 with polynomial
\* 0x31, initial value 0xFF, most significant bit first, no reflection and no
\* final XOR; for 0xBE 0xEF it is 0x92.
CrcMatchesDefinition ==
  reading.f = "calculate_crc" =>
    /\ reading.crc = Crc8Reference(reading.data[1], reading.data[2])
    /\ reading.crc \in Bytes
    /\ reading.data = <<190, 239>> => reading.crc = 146

\* C25 witness: the checksum of 0xBE 0xEF has been computed
CrcOfBeef ==
  /\ reading.f = "calculate_crc"
  /\ reading.data = <<190, 239>>
  /\ reading.crc = 146

\* C26: battery_voltage_to_percentage returns a value in 0..100, does not
\* decrease when the voltage goes up by one millivolt (so it is monotone over
\* all 16-bit voltages), and maps 2000 to 0, 2600 to 50 and 3200 to 100.
PercentageMonotoneAndClamped ==
  reading.f = "battery_voltage_to_percentage" =>
    LET mv == reading.voltage_mv IN
    /\ reading.percentage \in 0..100
    /\ mv < 65535 => reading.percentage <= battery_voltage_to_percentage(mv + 1)
    /\ mv = 2000 => reading.percentage = 0
    /\ mv = 2600 => reading.percentage = 50
    /\ mv = 3200 => reading.percentage = 100

\* C26 witness: the percentage of 2600 mV has been computed
PercentageOfHalf ==
  /\ reading.f = "battery_voltage_to_percentage"
  /\ reading.voltage_mv = 2600
  /\ reading.percentage = 50

\* C27: after identify(n), n > 0, received while identify is not active, and
\* as long as no other identify command arrives: the identify-time attribute
\* and identifyTimeRemaining are n minus the number of ticks so far, never
\* below 0; while that is above 0 identify is active, the timer runs and the
\* LED has been toggled once per tick; at 0 the timer is stopped, the LED is
\* off and identifyActive is false.  Every tick of the run toggles the LED
\* once and writes the attribute once.
IdentifyCountsDown ==
  /\ [](probe.idRun =>
          LET left == probe.idN - probe.idTicks IN
          /\ left >= 0
          /\ identify.identifyTimeRemaining = left
          /\ identify.identifyTimeAttribute = left
          /\ left > 0 =>
               /\ identify.identifyActive
               /\ identify.identifyTimer.running
               /\ identify.led = (IF probe.idTicks % 2 = 1 THEN "on" ELSE "off")
          /\ left = 0 =>
               /\ ~identify.identifyActive
               /\ ~identify.identifyTimer.running
               /\ identify.led = "off")
  /\ [][(ev'.h = "identify_timer_callback" /\ probe.idRun) =>
          /\ probe'.idTicks = probe.idTicks + 1
          /\ Count(calls', "sl_led_toggle") = 1
          /\ Count(calls', "ZCL_IDENTIFY_TIME_ATTRIBUTE_ID") = 1
          /\ Returned(calls', "ZCL_IDENTIFY_TIME_ATTRIBUTE_ID",
                      identify.identifyTimeRemaining - 1)]_vars

\* C27 witness: identify(3) has run down to 0 in three ticks
IdentifyRanDown ==
  /\ probe.idRun
  /\ probe.idN = 3
  /\ probe.idTicks = 3
  /\ ev.h = "identify_timer_callback"
  /\ ~identify.identifyActive
  /\ identify.identifyTimeAttribute = 0

\* C28: an identify command received while identify is active, with time 0,
\* stops the timer, turns the LED off, clears identifyActive and sets
\* identifyTimeRemaining to 0; with a time d > 0 it starts no timer, leaves
\* the running timer, the LED and identifyActive as they are and sets
\* identifyTimeRemaining to d.
IdentifyCommandWhileActive ==
  [][(ev'.h = "emberAfIdentifyClusterIdentifyCallback" /\ identify.identifyActive) =>
        /\ identify'.identifyTimeRemaining = probe'.idN
        /\ identify'.identifyTimeAttribute = probe'.idN
        /\ IF probe'.idN = 0
           THEN /\ Count(calls', "sl_sleeptimer_stop_timer") = 1
                /\ ~identify'.identifyTimer.running
                /\ Made(calls', "sl_led_turn_off")
                /\ identify'.led = "off"
                /\ ~identify'.identifyActive
           ELSE /\ ~Made(calls', "sl_sleeptimer_start_periodic_timer_ms")
                /\ ~Made(calls', "sl_sleeptimer_stop_timer")
                /\ identify'.identifyTimer = identify.identifyTimer
                /\ identify'.led = identify.led
                /\ identify'.identifyActive]_vars

\* C28 witness: a command with a positive time arrived while identify was
\* active
IdentifyTimeReplaced ==
  /\ ev.h = "emberAfIdentifyClusterIdentifyCallback"
  /\ probe.idN > 0
  /\ ~probe.idRun
  /\ identify.identifyActive
  /\ identify.identifyTimeRemaining = probe.idN
  /\ identify.identifyTimer.running

\* the states the fast-poll expiry passes through, from the present state
ExpirySteps == transition_to_normal_poll_steps([World EXCEPT !.fastPollTimer = NotRunning])

ToldNormalWhileActive(w) ==
  w.wakeTimeoutQs = APP_NORMAL_POLL_INTERVAL_QS /\ w.appContext.fastPollActive

\* C29 as stated: on the expiry that takes JOINED_FAST_POLL to JOINED_NORMAL
\* there is no state, between two statements, in which the stack has been
\* told the normal wake timeout and fastPollActive is still true.
FlagClearedBeforePollRewrite ==
  [][(ev'.h = "fast_poll_timer_callback" /\ appContext.state = "JOINED_FAST_POLL") =>
        \A i \in 1..Len(ExpirySteps) : ~ToldNormalWhileActive(ExpirySteps[i])]_vars

\* C29 as amended: on that expiry the phase is set first, then the stack is
\* told the normal wake timeout, then the WAITING_FOR_DATA_ACK task is
\* removed, and fastPollActive is cleared last: it is true in every state
\* before the last one, and the last one is the state the expiry ends in.
FlagClearedAfterPollRewrite ==
  [][(ev'.h = "fast_poll_timer_callback" /\ appContext.state = "JOINED_FAST_POLL") =>
        LET t == ExpirySteps IN
        /\ Len(t) = 4
        /\ \A i \in 1..3 : t[i].appContext.fastPollActive
                           /\ t[i].appContext.state = "JOINED_NORMAL"
        /\ t[1].wakeTimeoutQs = APP_FAST_POLL_INTERVAL_QS
        /\ ToldNormalWhileActive(t[2])
        /\ "EMBER_AF_WAITING_FOR_DATA_ACK" \in t[2].appTasks
        /\ ToldNormalWhileActive(t[3])
        /\ "EMBER_AF_WAITING_FOR_DATA_ACK" \notin t[3].appTasks
        /\ ~t[4].appContext.fastPollActive
        /\ t[4].appContext = appContext'
        /\ t[4].wakeTimeoutQs = wakeTimeoutQs'
        /\ t[4].appTasks = appTasks'
        /\ t[4].calls = calls']_vars

\* C29 witness: the expiry has told the stack and then cleared the flag
ExpiryToldStackThenCleared ==
  /\ ev.h = "fast_poll_timer_callback"
  /\ ev.pre = "JOINED_FAST_POLL"
  /\ Len(calls) = 2
  /\ calls[1] = <<"emberAfSetWakeTimeoutQsCallback", APP_NORMAL_POLL_INTERVAL_QS>>
  /\ calls[2][1] = "emberAfRemoveFromCurrentAppTasksCallback"
  /\ ~appContext.fastPollActive

\* the sensor timer and the fast-poll timer have both expired and neither
\* callback has run yet
BothTimersDue ==
  /\ sensorTimer.running /\ now >= sensorTimer.expiry
  /\ fastPollTimer.running /\ now >= fastPollTimer.expiry

\* C30: when the sensor timer and the fast-poll timer have both expired while
\* the phase is JOINED_FAST_POLL, the sensor tick is not processed ahead of
\* the fast-poll expiry, so its sample is never taken with the phase still
\* JOINED_FAST_POLL and fastPollActive still true.
FastPollExpiryBeforeSensorTick ==
  [][(BothTimersDue /\ appContext.state = "JOINED_FAST_POLL"
        /\ ev'.h = "sensor_timer_callback")
       => ~(ClimateWritten(calls') /\ BatteryWritten(calls')
            /\ appContext'.state = "JOINED_FAST_POLL"
            /\ appContext'.fastPollActive)]_vars

\* C31: when a long press is delivered at the same time as a sensor tick in
\* JOINED_FAST_POLL or JOINED_NORMAL, the leave comes first and the sample of
\* that tick is dropped: the sensor tick processed at that time has written
\* neither the climate attributes nor the battery attributes.
LongPressDropsCoincidingSample ==
  [][(ev'.h = "button_long_press_callback" /\ now' = now
        /\ ev.h = "sensor_timer_callback"
        /\ ev.pre \in {"JOINED_FAST_POLL", "JOINED_NORMAL"}
        /\ appContext.state \in {"JOINED_FAST_POLL", "JOINED_NORMAL"})
       => ~(ClimateWritten(calls) \/ BatteryWritten(calls))]_vars

\* C32: leaving the network stops the fast-poll timer: after a long press that
\* leaves, or a NETWORK_DOWN, taken while the fast-poll timer is armed, the
\* timer is no longer running; and no fast-poll expiry is delivered while the
\* phase is NOT_JOINED, LEAVING or JOINING, where only the timer of an old
\* join could deliver one.
LeaveStopsFastPollTimer ==
  /\ [][(fastPollTimer.running
           /\ \/ ev'.h = "button_long_press_callback" /\ Joined(appContext.state)
              \/ ev'.h = "app_stack_status_callback" /\ ev'.arg = "EMBER_NETWORK_DOWN")
          => ~fastPollTimer'.running]_vars
  /\ [][ev'.h = "fast_poll_timer_callback" =>
          appContext.state \notin {"NOT_JOINED", "LEAVING", "JOINING"}]_vars

\* the press duration the header of button.h promises for a short press
ShortPressLimitMs == 1000

\* C33: button_short_press_callback is called only for a press released
\* within 1 second: whenever button_process reports a short press, the
\* release it stamped is less than 1000 ms after the press it stamped.
ShortPressWithinOneSecond ==
  [][ev'.emit = "short" =>
       Sub32(buttonContext.releaseTimestamp, buttonContext.pressTimestamp)
         < ShortPressLimitMs]_vars

\* the frame of the example, and the same two words with the checksums
\* calculate_crc gives them
ExampleFrame == <<102, 26, 188, 127, 255, 132>>
ExampleWordsChecked == <<102, 26, 22, 127, 255, 143>>

\* a value in units of 0.01, truncated as the cast to an integer truncates
Hundredths(x) == TruncDiv(x * 100, FloatScale)

About(x, y) == x - y \in -1..1

ReadFromPresentSensor(frame) ==
  /\ reading.f = "sht31_read"
  /\ reading.sensorPresent /\ reading.i2cWrite /\ reading.i2cRead
  /\ reading.frame = frame

\* C34 as stated: sht31_read accepts the frame 66 1A BC 7F FF 84 read from a
\* present sensor and yields about 26.31 degrees C and about 50.00 %.
ExampleFrameAccepted ==
  ReadFromPresentSensor(ExampleFrame) =>
    /\ reading.ok
    /\ About(Hundredths(reading.temperature_c), 2631)
    /\ About(Hundredths(reading.humidity_rh), 5000)

\* C34 as amended: sht31_read refuses the frame 66 1A BC 7F FF 84, since the
\* checksum of 66 1A is 16 and that of 7F FF is 8F: it returns false with
\* fallback values and the sensor stays present. The same words with those
\* checksums, 66 1A 16 7F FF 8F, are accepted and give 24.79 degrees C (2479
\* in units of 0.01) and 49.99 % (4999 in units of 0.01).
ExampleFrameRefused ==
  /\ calculate_crc(<<102, 26>>, 2) = 22
  /\ calculate_crc(<<127, 255>>, 2) = 143
  /\ ReadFromPresentSensor(ExampleFrame) =>
       /\ ~reading.ok
       /\ IsFallback(reading)
       /\ sensorPresent
  /\ ReadFromPresentSensor(ExampleWordsChecked) =>
       /\ reading.ok
       /\ Hundredths(reading.temperature_c) = 2479
       /\ Hundredths(reading.humidity_rh) = 4999

\* C34 witness: the frame of the example was read from a present sensor and
\* refused
ExampleFrameRead ==
  /\ ReadFromPresentSensor(ExampleFrame)
  /\ ~reading.ok
  /\ sensorPresent

\* calls of button_process allowed for the return to IDLE
SettleCalls == 4

\* the button context after k more calls of button_process, the first at time
\* t and each later one a debounce time after the one before, with the pin
\* released and no further edge
RECURSIVE ButtonAfterCalls(_, _, _)
ButtonAfterCalls(bc, t, k) ==
  IF k = 0 THEN bc
  ELSE ButtonAfterCalls(
         button_process(bc, World, [NominalEnv EXCEPT !.now = t], "released").bc,
         t + BUTTON_DEBOUNCE_MS, k - 1)

\* C35: the button FSM cannot get stuck away from IDLE: from every reachable
\* state in which the pin is released, if it stays released with no further
\* edge, the FSM is in IDLE after a bounded number of button_process calls a
\* debounce time apart.
ReleasedButtonReturnsToIdle ==
  (appContext.state # "INIT" /\ pin = "released" /\ buttonCall.pc = "outside") =>
    ButtonAfterCalls(buttonContext, now, SettleCalls).state = "IDLE"

\* C36: fast poll never stays on indefinitely: while fastPollActive is true
\* the fast-poll timer is running and expires no later than 30000 ms after
\* the join that turned fast poll on, and after every fast-poll timer expiry
\* fastPollActive is false, whatever stack_status, join_complete and button
\* events came in between.
FastPollEndsByNextExpiry ==
  /\ [](appContext.fastPollActive =>
          /\ fastPollTimer.running
          /\ fastPollTimer.expiry <= appContext.joinTimestamp + APP_FAST_POLL_TIMEOUT_MS)
  /\ [][ev'.h = "fast_poll_timer_callback" => ~appContext'.fastPollActive]_vars

\* C37: the phase enters JOINED_FAST_POLL only from JOINING: a step that
\* makes the phase JOINED_FAST_POLL starts in JOINING, and a
\* join_complete(success) that arrives in NOT_JOINED, LEAVING, JOINED_NORMAL
\* or JOINED_FAST_POLL leaves the phase, fast poll and the fast-poll timer as
\* they were.
FastPollEnteredOnlyFromJoining ==
  /\ [][(appContext'.state = "JOINED_FAST_POLL" /\ appContext.state # "JOINED_FAST_POLL")
          => appContext.state = "JOINING"]_vars
  /\ [][(ev'.h = "emberAfPluginNetworkSteeringCompleteCallback"
           /\ ev'.arg = "EMBER_SUCCESS"
           /\ appContext.state \in {"NOT_JOINED", "LEAVING", "JOINED_NORMAL",
                                    "JOINED_FAST_POLL"})
          => /\ appContext'.state = appContext.state
             /\ appContext'.fastPollActive = appContext.fastPollActive
             /\ wakeTimeoutQs' = wakeTimeoutQs
             /\ appTasks' = appTasks
             /\ fastPollTimer' = fastPollTimer]_vars

\* C38: at most one steering attempt is outstanding: between a
\* start_steering that returned success and the steering-complete callback,
\* no button press and no stack status makes a handler call start_steering
\* again.
OneSteeringAttemptOutstanding ==
  [][probe.steering => ~Made(calls', "emberAfPluginNetworkSteeringStart")]_vars

\* C39: for every interleaving of the identify timer callback with the
\* identify command handler, whenever no handler is in progress
\* identifyActive is true exactly when the identify timer is running and
\* exactly when identifyTimeRemaining is positive.
IdentifyActiveIffRunning ==
  buttonCall.pc = "outside" =>
    /\ identify.identifyActive <=> identify.identifyTimer.running
    /\ identify.identifyActive <=> identify.identifyTimeRemaining > 0

====
